---- MODULE Spec2Model ----
(***************************************************************************)
(* Verification model of the cue stained-glass generator:                  *)
(*   - the region segmenter (detectRegions / fillRegion, span flood fill)  *)
(*   - the tiled export pipeline (exportFullResolution / generateForAPI,   *)
(*     ShaderRenderer.render and the fragment shader's coordinate algebra) *)
(* Pixel arrays are functions over 0..(width*height-1), row-major, as the  *)
(* typed arrays of the source are (idx = y * width + x).                   *)
(***************************************************************************)
EXTENDS Integers, Naturals, Sequences, FiniteSets, TLC

\* ------------------------------------------------------------------------
\* Bounds of the model
\* ------------------------------------------------------------------------
\* Largest pixel count (width * height) of the exhaustively enumerated
\* boundary maps.
MaxPixels == 9
\* The capacity scenarios have up to MAX_REGIONS + CapExtra components.
CapExtra == 2
\* Teeth of the comb-shaped component (two full rows joined by CombTeeth
\* one-pixel columns), the shape that makes fillRegion push a span again.
CombTeeth == 5

\* ------------------------------------------------------------------------
\* Program constants
\* ------------------------------------------------------------------------
BOUNDARY_ID == 255
MAX_REGIONS == 254

VARIABLES
    width,              \* detectRegions: parameter width
    height,             \* detectRegions: parameter height
    boundaries,         \* result of extractBoundaries: pixel -> BOOLEAN
    ids,                \* Uint8Array ids
    visited,            \* Uint8Array visited
    colors,             \* HSB[] colors (palette), index = region id
    regionId,           \* let regionId
    maxRegionsReached,  \* let maxRegionsReached
    scanX,              \* loop variable x of the row-major scan
    scanY,              \* loop variable y of the row-major scan
    stack,              \* fillRegion: Span[] stack (top = last element)
    pc                  \* position inside detectRegions

regionVars == <<width, height, boundaries, ids, visited, colors, regionId,
                maxRegionsReached, scanX, scanY, stack, pc>>

VARIABLES
    appState,           \* appState: target size, shapes and noise seed of the artwork
    maxTileSize,        \* MAX_TILE_SIZE of config/constants
    path,               \* which export runs: exportFullResolution or generateForAPI
    capt,               \* the export's locals: targetWidth, targetHeight, shapes, noiseSeed
    epc,                \* position inside the export
    tiles,              \* const tiles = calculateTileGrid(...)
    tileIdx,            \* index of the tile the loop is at (0-based, as i)
    fullRegionData,     \* const fullRegionData
    renderedTiles,      \* const renderedTiles: { canvas, info }[]
    detectLog,          \* the detectRegions calls of this export: their width and height
    output              \* the images handed to downloadCanvas / returned as data URL

exportVars == <<appState, maxTileSize, path, capt, epc, tiles, tileIdx,
                fullRegionData, renderedTiles, detectLog, output>>

\* Variables of the ShaderRenderer instances and of the sketch's calls on them
VARIABLES
    renderers,          \* every ShaderRenderer constructed: shader set or null, and what it has done
    renderCalls,        \* the render calls made so far: instance, caller, outcome
    spc,                \* position of the sketch: before setup, idle, or inside a handler
    cur,                \* the instance the running handler holds
    tilesLeft           \* tiles the running export still has to render

rendererVars == <<renderers, renderCalls, spc, cur, tilesLeft>>

\* Variables of the config resolver (seedConfig)
VARIABLES
    rsDimensions,       \* PromptDimensions: valence, arousal, focus
    rsStream,           \* the beta samples the random source will give, in order
    rsCall,             \* the last resolveValue call: value, sample, result
    rsConfigs,          \* the AppConfigs returned by the resolveConfig calls so far
    rspc                \* position of the resolver's caller

resolveVars == <<rsDimensions, rsStream, rsCall, rsConfigs, rspc>>

\* Variables of the shape generators (sketch/generators)
VARIABLES
    gnWidth,            \* canvas width given to the generators
    gnHeight,           \* canvas height given to the generators
    startEdge,          \* generateEdgeToEdgeLine: const startEdge
    endEdge,            \* generateEdgeToEdgeLine: let endEdge
    gnLine,             \* the LineConfig returned (start, end)
    gnCircle,           \* the CircleConfig returned (center, radius)
    gpc                 \* position inside the generator call

genVars == <<gnWidth, gnHeight, startEdge, endEdge, gnLine, gnCircle, gpc>>

\* Variables of the resolution modal's generate handler (ui.ts)
VARIABLES
    uiDimensions,       \* the PromptDimensions the running handler holds
    uiFailed,           \* analyzePrompt rejected during the running or the last handler
    uiClicks,           \* clicks the generate button has dispatched
    uiCalls,            \* the onGenerate calls made: the seededConfig of each
    uiOutcome,          \* how the last handler's promise settled
    uiDisabled,         \* generateBtn.disabled
    uipc                \* position of the handler

uiVars == <<uiDimensions, uiFailed, uiClicks, uiCalls, uiOutcome, uiDisabled, uipc>>

\* Variables of the /api/generate route of the server
VARIABLES
    apiQuery,           \* the request's query parameters: name -> value
    apiArgs,            \* the renderWithBrowser calls made: width, height, dimensions
    apiStatus,          \* status of the response sent, 0 before it is sent
    apipc               \* position of the route handler

apiVars == <<apiQuery, apiArgs, apiStatus, apipc>>

\* Variables of the shape uniforms of a render call and of the fragment shader reading them
VARIABLES
    shLines,            \* the lines passed to render
    shCircles,          \* the circles passed to render
    shUniforms,         \* uLines, uLineCount, uCircles, uCircleCount once set
    shUsed,             \* the segments and circles computeLeadingSDF took the distance to
    shpc                \* position: before render, uniforms set, fragment done

shaderVars == <<shLines, shCircles, shUniforms, shUsed, shpc>>

\* Variables of the fragment shader's colour choice for one pixel
VARIABLES
    fgPalette,          \* the colours of the colours texture's palette
    fgRegionId,         \* the pixel's texel of the region texture
    fgSdf,              \* the pixel's leading distance, in half pixels
    fgThickness,        \* uLeadingThickness, in half pixels
    fgOut,              \* the colour main computed, before grain
    fgpc                \* position: before or after main

fragVars == <<fgPalette, fgRegionId, fgSdf, fgThickness, fgOut, fgpc>>

\* Variables of the browser pool (BrowserPool, renderWithBrowser)
VARIABLES
    plBrowser,          \* BrowserPool.browser: launched (TRUE) or null (FALSE)
    plPages,            \* BrowserPool.pages: the inUse flag of each PooledPage, in push order
    plInitializing,     \* BrowserPool.initializing: null, or the doInit promise (pending, rejected)
    plWaiters,          \* the calls awaiting this.initializing at line 29, in arrival order
    plTasks,            \* the microtask queue: calls whose continuation is ready to run
    rqPc,               \* position of each renderWithBrowser / initBrowserPool call
    rqKind,             \* what each call is: render or init
    rqPage,             \* const page of each renderWithBrowser call (index into pages, 0: none)
    rqSeen              \* what init() found at lines 27-33 when the call entered it

poolVars == <<plBrowser, plPages, plInitializing, plWaiters, plTasks, rqPc, rqKind, rqPage, rqSeen>>

\* Variables of the generateArt calls that run during an export
VARIABLES
    genAt               \* for each generateArt call made during the export: the loop index i it found

raceVars == <<genAt>>

vars == <<regionVars, exportVars, rendererVars, resolveVars, genVars, uiVars, apiVars, shaderVars, fragVars, poolVars, raceVars>>

\* A component that is not running: its variables at rest
ParkedRegions ==
    /\ width = 0
    /\ height = 0
    /\ boundaries = <<>>
    /\ ids = <<>>
    /\ visited = <<>>
    /\ colors = <<>>
    /\ regionId = 0
    /\ maxRegionsReached = FALSE
    /\ scanX = 0
    /\ scanY = 0
    /\ stack = <<>>
    /\ pc = "off"

ParkedExport ==
    /\ appState = <<>>
    /\ maxTileSize = 0
    /\ path = "none"
    /\ capt = <<>>
    /\ epc = "off"
    /\ tiles = <<>>
    /\ tileIdx = 0
    /\ fullRegionData = <<>>
    /\ renderedTiles = <<>>
    /\ detectLog = <<>>
    /\ output = <<>>

ParkedRenderer ==
    /\ renderers = <<>>
    /\ renderCalls = <<>>
    /\ spc = "off"
    /\ cur = 0
    /\ tilesLeft = 0

ParkedResolve ==
    /\ rsDimensions = <<>>
    /\ rsStream = <<>>
    /\ rsCall = <<>>
    /\ rsConfigs = <<>>
    /\ rspc = "off"

ParkedGen ==
    /\ gnWidth = 0
    /\ gnHeight = 0
    /\ startEdge = "none"
    /\ endEdge = "none"
    /\ gnLine = <<>>
    /\ gnCircle = <<>>
    /\ gpc = "off"

ParkedUi ==
    /\ uiDimensions = <<>>
    /\ uiFailed = FALSE
    /\ uiClicks = 0
    /\ uiCalls = <<>>
    /\ uiOutcome = "none"
    /\ uiDisabled = FALSE
    /\ uipc = "off"

ParkedApi ==
    /\ apiQuery = <<>>
    /\ apiArgs = <<>>
    /\ apiStatus = 0
    /\ apipc = "off"

ParkedShader ==
    /\ shLines = <<>>
    /\ shCircles = <<>>
    /\ shUniforms = <<>>
    /\ shUsed = <<>>
    /\ shpc = "off"

ParkedFrag ==
    /\ fgPalette = <<>>
    /\ fgRegionId = 0
    /\ fgSdf = 0
    /\ fgThickness = 0
    /\ fgOut = <<>>
    /\ fgpc = "off"

ParkedPool ==
    /\ plBrowser = FALSE
    /\ plPages = <<>>
    /\ plInitializing = "null"
    /\ plWaiters = <<>>
    /\ plTasks = <<>>
    /\ rqPc = <<>>
    /\ rqKind = <<>>
    /\ rqPage = <<>>
    /\ rqSeen = <<>>

ParkedRace ==
    /\ genAt = <<>>

\* What a component leaves alone: the variables of all the others, which are at rest
exceptRegionsVars == <<exportVars, rendererVars, resolveVars, genVars, uiVars, apiVars, shaderVars, fragVars, poolVars, raceVars>>

ParkedExceptRegions ==
    /\ ParkedExport
    /\ ParkedRenderer
    /\ ParkedResolve
    /\ ParkedGen
    /\ ParkedUi
    /\ ParkedApi
    /\ ParkedShader
    /\ ParkedFrag
    /\ ParkedPool
    /\ ParkedRace

exceptExportVars == <<regionVars, rendererVars, resolveVars, genVars, uiVars, apiVars, shaderVars, fragVars, poolVars, raceVars>>

ParkedExceptExport ==
    /\ ParkedRegions
    /\ ParkedRenderer
    /\ ParkedResolve
    /\ ParkedGen
    /\ ParkedUi
    /\ ParkedApi
    /\ ParkedShader
    /\ ParkedFrag
    /\ ParkedPool
    /\ ParkedRace

exceptRendererVars == <<regionVars, exportVars, resolveVars, genVars, uiVars, apiVars, shaderVars, fragVars, poolVars, raceVars>>

ParkedExceptRenderer ==
    /\ ParkedRegions
    /\ ParkedExport
    /\ ParkedResolve
    /\ ParkedGen
    /\ ParkedUi
    /\ ParkedApi
    /\ ParkedShader
    /\ ParkedFrag
    /\ ParkedPool
    /\ ParkedRace

exceptResolveVars == <<regionVars, exportVars, rendererVars, genVars, uiVars, apiVars, shaderVars, fragVars, poolVars, raceVars>>

ParkedExceptResolve ==
    /\ ParkedRegions
    /\ ParkedExport
    /\ ParkedRenderer
    /\ ParkedGen
    /\ ParkedUi
    /\ ParkedApi
    /\ ParkedShader
    /\ ParkedFrag
    /\ ParkedPool
    /\ ParkedRace

exceptGenVars == <<regionVars, exportVars, rendererVars, resolveVars, uiVars, apiVars, shaderVars, fragVars, poolVars, raceVars>>

ParkedExceptGen ==
    /\ ParkedRegions
    /\ ParkedExport
    /\ ParkedRenderer
    /\ ParkedResolve
    /\ ParkedUi
    /\ ParkedApi
    /\ ParkedShader
    /\ ParkedFrag
    /\ ParkedPool
    /\ ParkedRace

exceptUiVars == <<regionVars, exportVars, rendererVars, resolveVars, genVars, apiVars, shaderVars, fragVars, poolVars, raceVars>>

ParkedExceptUi ==
    /\ ParkedRegions
    /\ ParkedExport
    /\ ParkedRenderer
    /\ ParkedResolve
    /\ ParkedGen
    /\ ParkedApi
    /\ ParkedShader
    /\ ParkedFrag
    /\ ParkedPool
    /\ ParkedRace

exceptApiVars == <<regionVars, exportVars, rendererVars, resolveVars, genVars, uiVars, shaderVars, fragVars, poolVars, raceVars>>

ParkedExceptApi ==
    /\ ParkedRegions
    /\ ParkedExport
    /\ ParkedRenderer
    /\ ParkedResolve
    /\ ParkedGen
    /\ ParkedUi
    /\ ParkedShader
    /\ ParkedFrag
    /\ ParkedPool
    /\ ParkedRace

exceptShaderVars == <<regionVars, exportVars, rendererVars, resolveVars, genVars, uiVars, apiVars, fragVars, poolVars, raceVars>>

ParkedExceptShader ==
    /\ ParkedRegions
    /\ ParkedExport
    /\ ParkedRenderer
    /\ ParkedResolve
    /\ ParkedGen
    /\ ParkedUi
    /\ ParkedApi
    /\ ParkedFrag
    /\ ParkedPool
    /\ ParkedRace

exceptFragVars == <<regionVars, exportVars, rendererVars, resolveVars, genVars, uiVars, apiVars, shaderVars, poolVars, raceVars>>

ParkedExceptFrag ==
    /\ ParkedRegions
    /\ ParkedExport
    /\ ParkedRenderer
    /\ ParkedResolve
    /\ ParkedGen
    /\ ParkedUi
    /\ ParkedApi
    /\ ParkedShader
    /\ ParkedPool
    /\ ParkedRace

exceptPoolVars == <<regionVars, exportVars, rendererVars, resolveVars, genVars, uiVars, apiVars, shaderVars, fragVars, raceVars>>

ParkedExceptPool ==
    /\ ParkedRegions
    /\ ParkedExport
    /\ ParkedRenderer
    /\ ParkedResolve
    /\ ParkedGen
    /\ ParkedUi
    /\ ParkedApi
    /\ ParkedShader
    /\ ParkedFrag
    /\ ParkedRace

exceptRaceVars == <<regionVars, exportVars, rendererVars, resolveVars, genVars, uiVars, apiVars, shaderVars, fragVars, poolVars>>

ParkedExceptRace ==
    /\ ParkedRegions
    /\ ParkedExport
    /\ ParkedRenderer
    /\ ParkedResolve
    /\ ParkedGen
    /\ ParkedUi
    /\ ParkedApi
    /\ ParkedShader
    /\ ParkedFrag
    /\ ParkedPool

Pixels(w, h) == 0 .. (w * h - 1)

Min(S) == CHOOSE m \in S : \A n \in S : m <= n

\* ------------------------------------------------------------------------
\* regionFiller.ts: helpers of the span flood fill
\* ------------------------------------------------------------------------
\* findSpan, "Scan left": while (left > 0 && !visited[rowStart + left - 1]) left--
\* The loop takes the least number d of steps after which left = startX - d
\* is 0 or has a visited left neighbour.
ScanLeft(vis, rowStart, startX) ==
    startX - Min({d \in 0 .. startX :
                    d = startX \/ vis[rowStart + startX - d - 1] # 0})

\* findSpan, "Scan right": while (right < width - 1 && !visited[rowStart + right + 1]) right++
\* The loop stops at the least position >= startX that is width - 1 or has a
\* visited right neighbour.
ScanRight(vis, w, rowStart, startX) ==
    Min({r \in startX .. (w - 1) : r = w - 1 \/ vis[rowStart + r + 1] # 0})

\* findSpan(visited, width, startX, y): [left, right]
findSpan(vis, w, startX, yy) ==
    <<ScanLeft(vis, yy * w, startX), ScanRight(vis, w, yy * w, startX)>>

\* addSpansForLine, "Skip visited pixels": while (x <= xRight && visited[rowStart + x]) x++
SkipVisited(vis, rowStart, xx, xRight) ==
    Min({k \in xx .. (xRight + 1) : k > xRight \/ vis[rowStart + k] = 0})

\* Variant of SkipUnvisited without the inner loop: x advances by one pixel.
SkipUnvisitedOneStep(vis, rowStart, xx, xRight) == xx + 1

\* addSpansForLine, "Find end of unfilled span": while (x <= xRight && !visited[rowStart + x]) x++
SkipUnvisited(vis, rowStart, xx, xRight) ==
    Min({k \in xx .. (xRight + 1) : k > xRight \/ vis[rowStart + k] # 0})

\* addSpansForLine: the while (x <= xRight) loop, from position xx
RECURSIVE addSpansLoop(_, _, _, _, _, _)
addSpansLoop(vis, w, yy, xx, xRight, stk) ==
    IF xx > xRight
    THEN stk
    ELSE CHOOSE result \in
           {IF spanLeft > xRight
            THEN stk
            ELSE CHOOSE pushed \in
                   {addSpansLoop(vis, w, yy, spanEnd, xRight,
                        Append(stk, [y |-> yy, xLeft |-> ext[1], xRight |-> ext[2]]))
                      : spanEnd \in {SkipUnvisited(vis, yy * w, spanLeft, xRight)},
                        ext \in {findSpan(vis, w, spanLeft, yy)}} : TRUE
              : spanLeft \in {SkipVisited(vis, yy * w, xx, xRight)}} : TRUE

\* Variant of addSpansForLine without "Extend span to natural boundaries":
\* the pushed span is clipped to the x range of the popped span.
RECURSIVE addSpansLoopClipped(_, _, _, _, _, _)
addSpansLoopClipped(vis, w, yy, xx, xRight, stk) ==
    IF xx > xRight
    THEN stk
    ELSE LET spanLeft == SkipVisited(vis, yy * w, xx, xRight)
         IN  IF spanLeft > xRight
             THEN stk
             ELSE LET spanEnd == SkipUnvisited(vis, yy * w, spanLeft, xRight)
                  IN  addSpansLoopClipped(vis, w, yy, spanEnd, xRight,
                          Append(stk, [y |-> yy, xLeft |-> spanLeft, xRight |-> spanEnd - 1]))

addSpansForLineClipped(vis, w, yy, xLeft, xRight, stk) ==
    addSpansLoopClipped(vis, w, yy, xLeft, xRight, stk)

\* addSpansForLine(visited, width, y, xLeft, xRight, stack)
addSpansForLine(vis, w, yy, xLeft, xRight, stk) ==
    addSpansLoop(vis, w, yy, xLeft, xRight, stk)

\* The pixels one popped span writes: "if (visited[idx]) continue"
SpanPixels(vis, w, span) ==
    {i \in (span.y * w + span.xLeft) .. (span.y * w + span.xRight) : vis[i] = 0}

\* Variant of fillRegionIter without the "Check line below" step.
fillRegionIterNoBelow(idsA, vis, w, h, rid, stk) ==
    LET span  == stk[Len(stk)]
        rest  == SubSeq(stk, 1, Len(stk) - 1)
        fill  == SpanPixels(vis, w, span)
        vis1  == [i \in DOMAIN vis |-> IF i \in fill THEN 1 ELSE vis[i]]
        ids1  == [i \in DOMAIN idsA |-> IF i \in fill THEN rid % 256 ELSE idsA[i]]
        stk1  == IF span.y > 0
                 THEN addSpansForLine(vis1, w, span.y - 1, span.xLeft, span.xRight, rest)
                 ELSE rest
    IN  [ids |-> ids1, visited |-> vis1, stack |-> stk1]

\* Variant of fillRegionIter that reads the top span without popping it.
fillRegionIterNoPop(idsA, vis, w, h, rid, stk) ==
    CHOOSE result \in
      {CHOOSE filled \in
         {CHOOSE above \in
            {[ids |-> [i \in DOMAIN idsA |-> IF i \in fill THEN rid % 256 ELSE idsA[i]],
              visited |-> vis1,
              stack |-> IF span.y < h - 1
                        THEN addSpansForLine(vis1, w, span.y + 1, span.xLeft, span.xRight, stk1)
                        ELSE stk1]
               : stk1 \in {IF span.y > 0
                           THEN addSpansForLine(vis1, w, span.y - 1, span.xLeft, span.xRight, stk)
                           ELSE stk}} : TRUE
            : vis1 \in {[i \in DOMAIN vis |-> IF i \in fill THEN 1 ELSE vis[i]]}} : TRUE
         : span \in {stk[Len(stk)]},
           fill \in {SpanPixels(vis, w, stk[Len(stk)])}} : TRUE

\* One iteration of fillRegion's while (stack.length > 0) loop:
\* pop, fill the span, push the spans of the line above and of the line below.
fillRegionIter(idsA, vis, w, h, rid, stk) ==
    CHOOSE result \in
      {CHOOSE filled \in
         {CHOOSE above \in
            {[ids |-> [i \in DOMAIN idsA |-> IF i \in fill THEN rid % 256 ELSE idsA[i]],
              visited |-> vis1,
              stack |-> IF span.y < h - 1
                        THEN addSpansForLine(vis1, w, span.y + 1, span.xLeft, span.xRight, stk1)
                        ELSE stk1]
               : stk1 \in {IF span.y > 0
                           THEN addSpansForLine(vis1, w, span.y - 1, span.xLeft, span.xRight, rest)
                           ELSE rest}} : TRUE
            : vis1 \in {[i \in DOMAIN vis |-> IF i \in fill THEN 1 ELSE vis[i]]}} : TRUE
         : span \in {stk[Len(stk)]},
           rest \in {SubSeq(stk, 1, Len(stk) - 1)},
           fill \in {SpanPixels(vis, w, stk[Len(stk)])}} : TRUE

\* fillRegion, "Find initial span": the stack fillRegion starts with
fillRegionStart(vis, w, startX, startY) ==
    LET sp == findSpan(vis, w, startX, startY)
    IN  <<[y |-> startY, xLeft |-> sp[1], xRight |-> sp[2]]>>

\* Variant of markBoundaries that marks the id but not the visited flag.
markBoundariesNoVisited(b, w, h) ==
    [ids     |-> [i \in Pixels(w, h) |-> IF b[i] THEN BOUNDARY_ID ELSE 0],
     visited |-> [i \in Pixels(w, h) |-> 0]]

\* detectRegions, "Initialize region IDs - boundaries marked as 255"
markBoundaries(b, w, h) ==
    [ids     |-> [i \in Pixels(w, h) |-> IF b[i] THEN BOUNDARY_ID ELSE 0],
     visited |-> [i \in Pixels(w, h) |-> IF b[i] THEN 1 ELSE 0]]

\* The palette entry of a region: the golden-ratio hue offset is keyed to the
\* region id (the random saturation/brightness jitter is left out: no checked
\* property reads it).
regionColor(rid) == [hueKey |-> rid]

\* Variant of capReached that is off by one (lets a region with id 254 through).
capReachedLate(rid) == rid > MAX_REGIONS

\* line 65: if (regionId >= 254), "Reserve 255 for boundaries"
capReached(rid) == rid >= MAX_REGIONS

\* The position the for-loops visit after (xx, yy)
NextScan(w, xx, yy) == IF xx + 1 < w THEN <<xx + 1, yy>> ELSE <<0, yy + 1>>

\* ------------------------------------------------------------------------
\* Inputs of the segmenter
\* ------------------------------------------------------------------------
\* the canvas sizes with at least one and at most n pixels
CanvasSizes(n) ==
    {d \in (1 .. n) \X (1 .. n) : d[1] * d[2] <= n}

\* every boundary map of every canvas of at most MaxPixels pixels
SmallInputs ==
    UNION { { [w |-> d[1], h |-> d[2], b |-> b] : b \in [Pixels(d[1], d[2]) -> BOOLEAN] }
            : d \in CanvasSizes(MaxPixels) }

\* a one-row canvas with n one-pixel components separated by boundary pixels
RowInput(n) ==
    [w |-> 2 * n - 1, h |-> 1, b |-> [i \in Pixels(2 * n - 1, 1) |-> i % 2 = 1]]

\* a two-row checkerboard with wd one-pixel components
CheckerInput(wd) ==
    [w |-> wd, h |-> 2,
     b |-> [i \in Pixels(wd, 2) |-> ((i % wd) + (i \div wd)) % 2 = 1]]

\* canvases around the region cap: MAX_REGIONS - 1 .. MAX_REGIONS + CapExtra
\* components in one row, and a checkerboard above the cap
CapInputs ==
    { RowInput(n) : n \in (MAX_REGIONS - 1) .. (MAX_REGIONS + CapExtra) }
    \cup { CheckerInput(MAX_REGIONS + CapExtra) }

\* a three-row canvas of width 2k - 1: full rows 0 and 2, and k one-pixel
\* columns in row 1 separated by boundary pixels (one component, k + 2 runs)
CombInput(k) ==
    [w |-> 2 * k - 1, h |-> 3,
     b |-> [i \in Pixels(2 * k - 1, 3) |-> (i \div (2 * k - 1)) = 1 /\ (i % (2 * k - 1)) % 2 = 1]]

\* a three-row canvas of width 2k - 1 without boundary pixels
OpenInput(k) ==
    [w |-> 2 * k - 1, h |-> 3, b |-> [i \in Pixels(2 * k - 1, 3) |-> FALSE]]

WideInputs == {CombInput(CombTeeth), OpenInput(CombTeeth)}

RegionInputs == SmallInputs \cup CapInputs \cup WideInputs

\* ------------------------------------------------------------------------
\* detectRegions as a state machine
\* ------------------------------------------------------------------------
InitRegions ==
    \E inp \in RegionInputs :
        /\ width = inp.w
        /\ height = inp.h
        /\ boundaries = inp.b
        /\ ids = [i \in Pixels(inp.w, inp.h) |-> 0]
        /\ visited = [i \in Pixels(inp.w, inp.h) |-> 0]
        /\ colors = <<>>
        /\ regionId = 0
        /\ maxRegionsReached = FALSE
        /\ scanX = 0
        /\ scanY = 0
        /\ stack = <<>>
        /\ pc = "init"
        /\ ParkedExceptRegions

\* lines 43-51: the boundary marking loop
InitBoundaries ==
    /\ pc = "init"
    /\ LET m == markBoundaries(boundaries, width, height)
       IN  /\ ids' = m.ids
           /\ visited' = m.visited
    /\ pc' = "scan"
    /\ UNCHANGED <<width, height, boundaries, colors, regionId,
                   maxRegionsReached, scanX, scanY, stack>>
    /\ UNCHANGED exceptRegionsVars

\* line 62: if (visited[idx]) continue
ScanSkip ==
    /\ pc = "scan"
    /\ scanY < height
    /\ visited[scanY * width + scanX] # 0
    /\ scanX' = NextScan(width, scanX, scanY)[1]
    /\ scanY' = NextScan(width, scanX, scanY)[2]
    /\ UNCHANGED <<width, height, boundaries, ids, visited, colors, regionId,
                   maxRegionsReached, stack, pc>>
    /\ UNCHANGED exceptRegionsVars

\* Variant of ScanCap where the cap is tested after the palette entry is pushed.
ScanCapAfterPush ==
    /\ pc = "scan"
    /\ scanY < height
    /\ visited[scanY * width + scanX] = 0
    /\ capReached(regionId)
    /\ colors' = Append(colors, regionColor(regionId))
    /\ maxRegionsReached' = TRUE
    /\ pc' = "done"
    /\ UNCHANGED <<width, height, boundaries, ids, visited, regionId,
                   scanX, scanY, stack>>
    /\ UNCHANGED exceptRegionsVars

\* lines 65-71: the region cap, break outer, then return
ScanCap ==
    /\ pc = "scan"
    /\ scanY < height
    /\ visited[scanY * width + scanX] = 0
    /\ capReached(regionId)
    /\ maxRegionsReached' = TRUE
    /\ pc' = "done"
    /\ UNCHANGED <<width, height, boundaries, ids, visited, colors, regionId,
                   scanX, scanY, stack>>
    /\ UNCHANGED exceptRegionsVars

\* lines 73-92 and 113-117: palette entry, call of fillRegion, initial span
ScanStart ==
    /\ pc = "scan"
    /\ scanY < height
    /\ visited[scanY * width + scanX] = 0
    /\ ~capReached(regionId)
    /\ colors' = Append(colors, regionColor(regionId))
    /\ stack' = fillRegionStart(visited, width, scanX, scanY)
    /\ pc' = "fill"
    /\ UNCHANGED <<width, height, boundaries, ids, visited, regionId,
                   maxRegionsReached, scanX, scanY>>
    /\ UNCHANGED exceptRegionsVars

\* lines 119-141: one iteration of the while loop of fillRegion
FillStep ==
    /\ pc = "fill"
    /\ Len(stack) > 0
    /\ LET r == fillRegionIter(ids, visited, width, height, regionId, stack)
       IN  /\ ids' = r.ids
           /\ visited' = r.visited
           /\ stack' = r.stack
    /\ UNCHANGED <<width, height, boundaries, colors, regionId,
                   maxRegionsReached, scanX, scanY, pc>>
    /\ UNCHANGED exceptRegionsVars

\* Variant of FillReturn that leaves an id unused between two regions.
FillReturnSkipId ==
    /\ pc = "fill"
    /\ Len(stack) = 0
    /\ regionId' = regionId + 2
    /\ scanX' = NextScan(width, scanX, scanY)[1]
    /\ scanY' = NextScan(width, scanX, scanY)[2]
    /\ pc' = "scan"
    /\ UNCHANGED <<width, height, boundaries, ids, visited, colors,
                   maxRegionsReached, stack>>
    /\ UNCHANGED exceptRegionsVars

\* fillRegion returns (stack empty); line 94: regionId++, next x
FillReturn ==
    /\ pc = "fill"
    /\ Len(stack) = 0
    /\ regionId' = regionId + 1
    /\ scanX' = NextScan(width, scanX, scanY)[1]
    /\ scanY' = NextScan(width, scanX, scanY)[2]
    /\ pc' = "scan"
    /\ UNCHANGED <<width, height, boundaries, ids, visited, colors,
                   maxRegionsReached, stack>>
    /\ UNCHANGED exceptRegionsVars

\* line 98: the loops ran to the end, return { ids, colors }
ScanEnd ==
    /\ pc = "scan"
    /\ scanY >= height
    /\ pc' = "done"
    /\ UNCHANGED <<width, height, boundaries, ids, visited, colors, regionId,
                   maxRegionsReached, scanX, scanY, stack>>
    /\ UNCHANGED exceptRegionsVars

NextRegions ==
    \/ InitBoundaries
    \/ ScanSkip
    \/ ScanCap
    \/ ScanStart
    \/ FillStep
    \/ FillReturn
    \/ ScanEnd

SpecRegions == InitRegions /\ [][NextRegions]_vars

\* ------------------------------------------------------------------------
\* Reference notions the claims are stated with (not taken from the code)
\* ------------------------------------------------------------------------
\* 4-neighbours of pixel p on a w x h canvas
Neighbours(p, w, h) ==
    {q \in {p - 1} : p % w # 0} \cup {q \in {p + 1} : (p + 1) % w # 0}
    \cup {q \in {p - w} : p >= w} \cup {q \in {p + w} : p + w < w * h}

\* label propagation to the least pixel index of the component
RECURSIVE Propagate(_, _, _, _)
Propagate(lab, b, w, h) ==
    LET nxt == [p \in DOMAIN lab |->
                  IF b[p] THEN lab[p]
                  ELSE Min({lab[p]} \cup {lab[q] : q \in {n \in Neighbours(p, w, h) : ~b[n]}})]
    IN  IF nxt = lab THEN lab ELSE Propagate(nxt, b, w, h)

\* component label (least pixel index of the 4-connected component) per pixel
ComponentOf(b, w, h) == Propagate([p \in Pixels(w, h) |-> p], b, w, h)

Interior(b, w, h) == {p \in Pixels(w, h) : ~b[p]}

\* ------------------------------------------------------------------------
\* Properties of the segmenter
\* ------------------------------------------------------------------------
AllPixels == Pixels(width, height)

InteriorNow == Interior(boundaries, width, height)

\* the ids the flood fill has written: the ids of visited interior pixels
AssignedIds == {ids[p] : p \in {q \in InteriorNow : visited[q] # 0}}

\* C1: after detectRegions on a boundary map with at most 254 components, two
\* non-boundary pixels hold the same region id iff they lie in the same
\* 4-connected component of non-boundary pixels.
C1_RegionIsComponent ==
    pc = "done" =>
        LET comp == ComponentOf(boundaries, width, height)
        IN  Cardinality({comp[p] : p \in InteriorNow}) <= 254 =>
                \A p, q \in InteriorNow : (ids[p] = ids[q]) <=> (comp[p] = comp[q])

\* a finished run with several regions, one of which spans more than one row
C1_Witness ==
    /\ pc = "done"
    /\ Len(colors) >= 2
    /\ \E p, q \in InteriorNow :
          /\ ids[p] = ids[q]
          /\ p \div width # q \div width
          /\ p % width # q % width

\* C2: after every completed detectRegions call, colors.length equals the
\* number of distinct values other than 255 in ids, and is at most 254.
C2_PaletteMatchesIds ==
    pc = "done" =>
        /\ Len(colors) = Cardinality({ids[p] : p \in AllPixels} \ {255})
        /\ Len(colors) <= 254

\* a finished run that hit the region cap
C2_Witness ==
    /\ pc = "done"
    /\ maxRegionsReached
    /\ Len(colors) = 254

\* C3: once the boundaries are marked, and so after detectRegions, a pixel
\* holds id 255 iff it is a boundary pixel: the fill never overwrites a
\* boundary pixel and never gives 255 to a non-boundary pixel.
C3_BoundaryIffId255 ==
    pc # "init" => \A p \in AllPixels : (ids[p] = 255) <=> boundaries[p]

\* a finished run on a canvas with boundary pixels and filled regions
C3_Witness ==
    /\ pc = "done"
    /\ regionId >= 1
    /\ \E p \in AllPixels : boundaries[p]
    /\ \E p \in AllPixels : ~boundaries[p] /\ ids[p] = regionId - 1

\* C4: with more than 254 components detectRegions assigns exactly 254
\* regions (ids 0..253, the first 254 components in row-major order, palette
\* length 254), stops at the first unvisited pixel after that, returns
\* normally (no step before "done" is stuck), and 254 never appears in ids.
C4_CapAt254 ==
    LET comp   == ComponentOf(boundaries, width, height)
        labels == {comp[p] : p \in InteriorNow}
        first  == {l \in labels : Cardinality({m \in labels : m < l}) < 254}
    IN  Cardinality(labels) > 254 =>
            /\ \A p \in AllPixels : ids[p] # 254
            /\ pc # "done" => ENABLED NextRegions
            /\ pc = "done" =>
                  /\ maxRegionsReached
                  /\ Len(colors) = 254
                  /\ regionId = 254
                  /\ AssignedIds = 0 .. 253
                  /\ \A p \in InteriorNow : (visited[p] # 0) <=> (comp[p] \in first)
                  /\ \A p \in InteriorNow : visited[p] # 0 =>
                         ids[p] = Cardinality({m \in labels : m < comp[p]})
                  /\ scanY * width + scanX = Min({p \in AllPixels : visited[p] = 0})

\* a finished run over more than 254 components, stopped in the second row
C4_Witness ==
    /\ pc = "done"
    /\ maxRegionsReached
    /\ scanY = 1
    /\ Cardinality({p \in AllPixels : visited[p] = 0}) >= 2

\* C5: when the cap is reached, the pixels of every remaining component hold
\* a value in ids that is not the id of any assigned region.
C5_LeftoverHasNoRegionId ==
    (pc = "done" /\ maxRegionsReached) =>
        \A p \in InteriorNow : visited[p] = 0 => ids[p] \notin AssignedIds

\* C6: a canvas with no boundary pixel yields exactly one region (id 0 on
\* every pixel, palette length 1); a canvas of boundary pixels only yields no
\* region (every id 255, empty palette); neither run gets stuck.
C6_EdgeCanvases ==
    /\ (\A p \in AllPixels : ~boundaries[p]) =>
          /\ pc # "done" => ENABLED NextRegions
          /\ pc = "done" => /\ \A p \in AllPixels : ids[p] = 0
                            /\ Len(colors) = 1
                            /\ ~maxRegionsReached
    /\ (\A p \in AllPixels : boundaries[p]) =>
          /\ pc # "done" => ENABLED NextRegions
          /\ pc = "done" => /\ \A p \in AllPixels : ids[p] = 255
                            /\ colors = <<>>
                            /\ ~maxRegionsReached

\* a finished run on the largest boundary-free canvas with several rows
C6_Witness ==
    /\ pc = "done"
    /\ width >= 2
    /\ height >= 2
    /\ \A p \in AllPixels : ~boundaries[p]
    /\ Len(colors) = 1

\* ========================================================================
\* Tiled export: sketch.ts (exportFullResolution, generateForAPI),
\* ShaderRenderer.render and the shaders' coordinate algebra
\* ========================================================================
\* Bounds of the export model: largest pixel count of the exported canvas and
\* largest tile size.
MaxExportPixels == 6
MaxTileDim == 2

\* the noise seeds p.random(1000) is drawn from
NoiseSeeds == {0, 1}

\* detectRegions run to completion: fillRegion's while loop
RECURSIVE fillRegionLoop(_, _, _, _, _, _)
fillRegionLoop(idsA, vis, w, h, rid, stk) ==
    IF Len(stk) = 0
    THEN [ids |-> idsA, visited |-> vis]
    ELSE LET r == fillRegionIter(idsA, vis, w, h, rid, stk)
         IN  fillRegionLoop(r.ids, r.visited, w, h, rid, r.stack)

\* fillRegion(ids, visited, width, height, startX, startY, regionId)
fillRegion(idsA, vis, w, h, startX, startY, rid) ==
    fillRegionLoop(idsA, vis, w, h, rid, fillRegionStart(vis, w, startX, startY))

\* detectRegions run to completion: the row-major scan from (xx, yy)
RECURSIVE detectRegionsScan(_, _, _, _, _, _, _, _)
detectRegionsScan(idsA, vis, cols, rid, w, h, xx, yy) ==
    IF yy >= h
    THEN [ids |-> idsA, colors |-> cols]
    ELSE IF vis[yy * w + xx] # 0
    THEN detectRegionsScan(idsA, vis, cols, rid, w, h,
                           NextScan(w, xx, yy)[1], NextScan(w, xx, yy)[2])
    ELSE IF capReached(rid)
    THEN [ids |-> idsA, colors |-> cols]
    ELSE LET f == fillRegion(idsA, vis, w, h, xx, yy, rid)
         IN  detectRegionsScan(f.ids, f.visited, Append(cols, regionColor(rid)),
                               rid + 1, w, h,
                               NextScan(w, xx, yy)[1], NextScan(w, xx, yy)[2])

\* detectRegions(linePixels, width, height, config): { ids, colors }
detectRegions(b, w, h) ==
    LET m == markBoundaries(b, w, h)
    IN  detectRegionsScan(m.ids, m.visited, <<>>, 0, w, h, 0, 0)

\* computeRegionData: the shapes are drawn into a w x h buffer and the buffer
\* goes to detectRegions. A shape set is represented by the ink it leaves on
\* the canvas at target resolution (shapes.ink: pixel -> BOOLEAN).
computeRegionData(shapes, w, h) == detectRegions(shapes.ink, w, h)

\* needsTiledRendering(width, height): either dimension exceeds the tile size
needsTiledRendering(w, h, m) == w > m \/ h > m

\* Variant of calculateTileGrid whose last column and row are not clipped to
\* the image.
calculateTileGridUnclipped(w, h, m) ==
    LET cols == (w + m - 1) \div m
        rows == (h + m - 1) \div m
    IN  [k \in 1 .. (rows * cols) |->
            [x |-> ((k - 1) % cols) * m, y |-> ((k - 1) \div cols) * m,
             width |-> m, height |-> m]]

\* calculateTileGrid(width, height, maxTileDim): row-major grid of tiles no
\* larger than maxTileDim, the last column and row may be smaller
calculateTileGrid(w, h, m) ==
    LET cols == (w + m - 1) \div m
        rows == (h + m - 1) \div m
    IN  [k \in 1 .. (rows * cols) |->
            LET tx == ((k - 1) % cols) * m
                ty == ((k - 1) \div cols) * m
            IN  [x |-> tx, y |-> ty,
                 width  |-> IF w - tx < m THEN w - tx ELSE m,
                 height |-> IF h - ty < m THEN h - ty ELSE m]]

\* extractTileRegionData(fullRegionData, tile, fullWidth, fullHeight): the
\* sub-rectangle of the full raster, with the full palette
extractTileRegionData(full, tile, fullW, fullH) ==
    [ids    |-> [i \in Pixels(tile.width, tile.height) |->
                    full.ids[(tile.y + (i \div tile.width)) * fullW
                             + tile.x + (i % tile.width)]],
     colors |-> full.colors]

\* Variant of the vertex shader without the Y flip.
vTexCoordNoFlip(cx, cy, w, h) ==
    <<2 * cx + 1, 2 * (h - 1 - cy) + 1>>

\* region.vert: vTexCoord = vec2(aTexCoord.x, 1.0 - aTexCoord.y), at the
\* fragment of canvas pixel (cx, cy), cy counted from the top of the canvas.
\* Coordinates are numerators over (2w, 2h): pixel centres in half pixels.
\* The quad is the unit square with aTexCoord = aPosition, and WebGL window
\* rows count from the bottom of the canvas.
vTexCoord(cx, cy, w, h) ==
    LET glRow == h - 1 - cy
        aTexX == 2 * cx + 1
        aTexY == 2 * glRow + 1
    IN  <<aTexX, 2 * h - aTexY>>

\* updateColorsTexture: 256 x 1 texture, black beyond the palette; and the
\* lookup texture(uColorsTex, vec2(regionId, 0.5))
colorsTexel(cols, id) ==
    IF id < Len(cols) /\ id < 255 THEN cols[id + 1] ELSE "black"

\* region.frag main and computeGlassColor for the fragment of canvas pixel
\* (cx, cy) of a w x h render surface, under uniforms u. The result is the
\* tuple of everything the colour of the pixel is computed from: the colour
\* is a function of it.
fragMain(cx, cy, w, h, u) ==
    LET vt     == vTexCoord(cx, cy, w, h)
        \* localPixelCoord = vTexCoord * uResolution
        lx2    == (vt[1] * u.uResolution[1]) \div w
        ly2    == (vt[2] * u.uResolution[2]) \div h
        \* pixelCoord = localPixelCoord + uTileOffset
        px2    == lx2 + 2 * u.uTileOffset[1]
        py2    == ly2 + 2 * u.uTileOffset[2]
        \* computeGlassColor: localCoord = pixelCoord - uTileOffset;
        \* texCoord = localCoord / uResolution; texel of uRegionTex
        tx     == ((px2 - 2 * u.uTileOffset[1]) * u.texW) \div (2 * u.uResolution[1])
        ty     == ((py2 - 2 * u.uTileOffset[2]) * u.texH) \div (2 * u.uResolution[2])
        rid    == u.regionTex[ty * u.texW + tx]
    IN  [pixelCoord     |-> <<px2, py2>>,
         regionId       |-> rid,
         baseColor      |-> colorsTexel(u.colors, rid),
         fullResolution |-> u.uFullResolution,
         noiseSeed      |-> u.uNoiseSeed,
         shapes         |-> u.shapes]

\* ShaderRenderer.render: the textures and uniforms it sets. tileConfig is
\* <<>> when the optional parameter is absent, else <<[tileOffset, fullResolution]>>.
renderUniforms(data, w, h, seed, shapes, tileConfig) ==
    [uResolution     |-> <<w, h>>,
     uFullResolution |-> IF tileConfig # <<>> THEN tileConfig[1].fullResolution ELSE <<w, h>>,
     uTileOffset     |-> IF tileConfig # <<>> THEN tileConfig[1].tileOffset ELSE <<0, 0>>,
     regionTex       |-> data.ids,
     texW            |-> w,
     texH            |-> h,
     colors          |-> data.colors,
     uNoiseSeed      |-> seed,
     shapes          |-> shapes]

\* ShaderRenderer.render on a w x h render surface: the canvas it draws
\* (this.renderer.rect(0, 0, width, height) runs the fragment shader on
\* every pixel)
render(data, w, h, seed, shapes, tileConfig) ==
    LET u == renderUniforms(data, w, h, seed, shapes, tileConfig)
    IN  [i \in Pixels(w, h) |-> fragMain(i % w, i \div w, w, h, u)]

\* the body of the tile loop after the await: render surface of the tile's
\* size, tile region data, render with the tile's offset, copy of the canvas
renderTile(full, tile, c) ==
    [canvas |-> render(extractTileRegionData(full, tile, c.targetWidth, c.targetHeight),
                       tile.width, tile.height, c.noiseSeed, c.shapes,
                       <<[tileOffset     |-> <<tile.x, tile.y>>,
                          fullResolution |-> <<c.targetWidth, c.targetHeight>>]>>),
     data   |-> extractTileRegionData(full, tile, c.targetWidth, c.targetHeight),
     info   |-> tile]

\* a pixel of the composite canvas no tile was drawn on
BlankPixel == [blank |-> TRUE]

\* compositeTiles(renderedTiles, width, height): every tile canvas drawn at
\* its origin, in list order, on a blank canvas
compositeTiles(rt, w, h) ==
    [g \in Pixels(w, h) |->
        LET gx    == g % w
            gy    == g \div w
            cover == {k \in 1 .. Len(rt) :
                        /\ rt[k].info.x <= gx /\ gx < rt[k].info.x + rt[k].info.width
                        /\ rt[k].info.y <= gy /\ gy < rt[k].info.y + rt[k].info.height}
        IN  IF cover = {}
            THEN BlankPixel
            ELSE LET k == -Min({-j : j \in cover})
                 IN  rt[k].canvas[(gy - rt[k].info.y) * rt[k].info.width
                                  + (gx - rt[k].info.x)]]

\* ------------------------------------------------------------------------
\* Inputs of the export
\* ------------------------------------------------------------------------
\* the artworks generateArt can leave in appState / generateForAPI can make
Artworks ==
    UNION { { [targetWidth |-> d[1], targetHeight |-> d[2],
               shapes |-> [ink |-> b], noiseSeed |-> n]
              : b \in [Pixels(d[1], d[2]) -> BOOLEAN], n \in NoiseSeeds }
            : d \in CanvasSizes(MaxExportPixels) }


InitExport ==
    /\ ParkedExceptExport
    /\ path \in {"export", "api"}
    /\ appState \in IF path = "export" THEN Artworks ELSE {<<>>}
    /\ maxTileSize \in 1 .. MaxTileDim
    /\ capt = <<>>
    /\ epc = "idle"
    /\ tiles = <<>>
    /\ tileIdx = 0
    /\ fullRegionData = <<>>
    /\ renderedTiles = <<>>
    /\ detectLog = <<>>
    /\ output = <<>>

ExportDims == [w |-> capt.targetWidth, h |-> capt.targetHeight]

\* the "Simple case: render directly at full resolution" branch, run to its
\* end: region data, init, render, downloadCanvas / toDataURL
StartDirect(c) ==
    /\ capt' = c
    /\ detectLog' = <<[w |-> c.targetWidth, h |-> c.targetHeight]>>
    /\ output' = <<render(computeRegionData(c.shapes, c.targetWidth, c.targetHeight),
                          c.targetWidth, c.targetHeight, c.noiseSeed, c.shapes, <<>>)>>
    /\ epc' = "done"
    /\ UNCHANGED <<tiles, tileIdx, fullRegionData, renderedTiles>>

\* the tiled branch up to the first await of the tile loop: tile grid, then
\* the full-resolution region data
StartTiled(c) ==
    /\ capt' = c
    /\ tiles' = calculateTileGrid(c.targetWidth, c.targetHeight, maxTileSize)
    /\ fullRegionData' = computeRegionData(c.shapes, c.targetWidth, c.targetHeight)
    /\ detectLog' = <<[w |-> c.targetWidth, h |-> c.targetHeight]>>
    /\ renderedTiles' = <<>>
    /\ tileIdx' = 0
    /\ epc' = "tileAwait"
    /\ UNCHANGED output

\* exportFullResolution, lines 207-256: reads the application state
ExportFullResolution ==
    /\ epc = "idle"
    /\ path = "export"
    /\ IF needsTiledRendering(appState.targetWidth, appState.targetHeight, maxTileSize)
       THEN StartTiled(appState)
       ELSE StartDirect(appState)
    /\ UNCHANGED <<appState, maxTileSize, path>>
    /\ UNCHANGED exceptExportVars

\* generateForAPI, lines 301-373: generates its own shapes and noise seed
GenerateForAPI ==
    /\ epc = "idle"
    /\ path = "api"
    /\ \E c \in Artworks :
          IF needsTiledRendering(c.targetWidth, c.targetHeight, maxTileSize)
          THEN StartTiled(c)
          ELSE StartDirect(c)
    /\ UNCHANGED <<appState, maxTileSize, path>>
    /\ UNCHANGED exceptExportVars

\* the await new Promise(resolve => setTimeout(resolve, 10)) of the tile loop
TileResume ==
    /\ epc = "tileAwait"
    /\ epc' = "tileRender"
    /\ UNCHANGED <<appState, maxTileSize, path, capt, tiles, tileIdx,
                   fullRegionData, renderedTiles, detectLog, output>>
    /\ UNCHANGED exceptExportVars

\* the end of one iteration of the tile loop, leaving rt as renderedTiles and
\* log as the detectRegions calls: next tile, or the code after the loop.
\* exportFullResolution awaits once more before compositing; generateForAPI
\* composites and returns at once.
TileLoopStep(rt, log) ==
    /\ renderedTiles' = rt
    /\ detectLog' = log
    /\ tileIdx' = tileIdx + 1
    /\ IF tileIdx + 1 < Len(tiles)
       THEN /\ epc' = "tileAwait"
            /\ UNCHANGED output
       ELSE IF path = "export"
       THEN /\ epc' = "compositeAwait"
            /\ UNCHANGED output
       ELSE /\ epc' = "done"
            /\ output' = Append(output, compositeTiles(rt, capt.targetWidth, capt.targetHeight))
    /\ UNCHANGED <<appState, maxTileSize, path, capt, tiles, fullRegionData>>
    /\ UNCHANGED exceptExportVars

\* Variant of renderTile that runs detectRegions on the tile's own part of
\* the boundary buffer.
renderTileOwnRegions(full, tile, c) ==
    LET own == detectRegions(
                   [i \in Pixels(tile.width, tile.height) |->
                       c.shapes.ink[(tile.y + (i \div tile.width)) * c.targetWidth
                                    + tile.x + (i % tile.width)]],
                   tile.width, tile.height)
    IN  [canvas |-> render(own, tile.width, tile.height, c.noiseSeed, c.shapes,
                           <<[tileOffset     |-> <<tile.x, tile.y>>,
                              fullResolution |-> <<c.targetWidth, c.targetHeight>>]>>),
         data   |-> own,
         info   |-> tile]

\* Variant of TileRender with region detection per tile.
TileRenderDetectPerTile ==
    /\ epc = "tileRender"
    /\ TileLoopStep(Append(renderedTiles,
                           renderTileOwnRegions(fullRegionData, tiles[tileIdx + 1], capt)),
                    Append(detectLog, [w |-> tiles[tileIdx + 1].width,
                                       h |-> tiles[tileIdx + 1].height]))

\* Variant of TileRender that reads lines, circles and noise seed from the
\* application state at each tile.
TileRenderFromState ==
    /\ epc = "tileRender"
    /\ TileLoopStep(Append(renderedTiles,
                           renderTile(fullRegionData, tiles[tileIdx + 1], appState)),
                    detectLog)

\* lines 258-285 / 375-401: one tile rendered and pushed
TileRender ==
    /\ epc = "tileRender"
    /\ TileLoopStep(Append(renderedTiles,
                           renderTile(fullRegionData, tiles[tileIdx + 1], capt)),
                    detectLog)

\* Variant of TileRenderThrows where the error is swallowed and the loop goes
\* on with the next tile.
TileRenderThrowsSkipped ==
    /\ epc = "tileRender"
    /\ TileLoopStep(renderedTiles, detectLog)

\* a tile's render surface, shader or render call throws: the async function
\* rejects and nothing after the throw runs
TileRenderThrows ==
    /\ epc = "tileRender"
    /\ epc' = "failed"
    /\ UNCHANGED <<appState, maxTileSize, path, capt, tiles, tileIdx,
                   fullRegionData, renderedTiles, detectLog, output>>
    /\ UNCHANGED exceptExportVars

\* exportFullResolution, lines 288-294: after the await, compositeTiles and
\* downloadCanvas
CompositeAndDownload ==
    /\ epc = "compositeAwait"
    /\ output' = Append(output, compositeTiles(renderedTiles, capt.targetWidth,
                                               capt.targetHeight))
    /\ epc' = "done"
    /\ UNCHANGED <<appState, maxTileSize, path, capt, tiles, tileIdx,
                   fullRegionData, renderedTiles, detectLog>>
    /\ UNCHANGED exceptExportVars

NextExport ==
    \/ ExportFullResolution
    \/ GenerateForAPI
    \/ TileResume
    \/ TileRender
    \/ TileRenderThrows
    \/ CompositeAndDownload

SpecExport == InitExport /\ [][NextExport]_vars

\* ------------------------------------------------------------------------
\* The tile planner on its own: calculateTileGrid applied to every image
\* size and tile size within the bounds
\* ------------------------------------------------------------------------
MaxGridDim == 5

InitTiling ==
    /\ ParkedExceptExport
    /\ path = "none"
    /\ appState = <<>>
    /\ maxTileSize \in 1 .. (MaxGridDim + 1)
    /\ capt \in [targetWidth : 1 .. MaxGridDim, targetHeight : 1 .. MaxGridDim]
    /\ epc = "grid"
    /\ tiles = <<>>
    /\ tileIdx = 0
    /\ fullRegionData = <<>>
    /\ renderedTiles = <<>>
    /\ detectLog = <<>>
    /\ output = <<>>

\* const tiles = calculateTileGrid(targetWidth, targetHeight, MAX_TILE_SIZE)
PlanGrid ==
    /\ epc = "grid"
    /\ tiles' = calculateTileGrid(capt.targetWidth, capt.targetHeight, maxTileSize)
    /\ epc' = "gridDone"
    /\ UNCHANGED <<appState, maxTileSize, path, capt, tileIdx,
                   fullRegionData, renderedTiles, detectLog, output>>
    /\ UNCHANGED exceptExportVars

NextTiling == PlanGrid

SpecTiling == InitTiling /\ [][NextTiling]_vars

\* ------------------------------------------------------------------------
\* Properties of the tiled export
\* ------------------------------------------------------------------------
\* the export under way takes the tiled branch
Tiled ==
    /\ capt # <<>>
    /\ needsTiledRendering(capt.targetWidth, capt.targetHeight, maxTileSize)

InTile(t, gx, gy) ==
    /\ t.x <= gx /\ gx < t.x + t.width
    /\ t.y <= gy /\ gy < t.y + t.height

\* C7: tiling equivalence. Every pixel of every rendered tile is computed
\* from the same inputs (global pixel coordinate, region id and palette entry
\* of the full raster at that coordinate, shapes, noise seed, normalising
\* full resolution) as the pixel at tile origin + local coordinate of one
\* render of the whole image, and so is the composited image.
C7_TilingEquivalence ==
    (Tiled /\ epc # "idle") =>
        LET W      == capt.targetWidth
            H      == capt.targetHeight
            direct == render(fullRegionData, W, H, capt.noiseSeed, capt.shapes, <<>>)
        IN  /\ \A k \in 1 .. Len(renderedTiles) :
                  LET t == renderedTiles[k].info
                  IN  \A i \in Pixels(t.width, t.height) :
                          renderedTiles[k].canvas[i]
                            = direct[(t.y + (i \div t.width)) * W + t.x + (i % t.width)]
            /\ \A n \in 1 .. Len(output) : output[n] = direct

\* a finished tiled export of an image with several rows and columns of
\* tiles and more than one region id
C7_Witness ==
    /\ Tiled
    /\ epc = "done"
    /\ Len(output) = 1
    /\ Len(tiles) >= 4
    /\ tiles[Len(tiles)].x > 0
    /\ tiles[Len(tiles)].y > 0
    /\ Cardinality({fullRegionData.ids[p] : p \in DOMAIN fullRegionData.ids}) >= 3

\* C8: for every width, height and maxTileDim >= 1 the tile grid is a
\* row-major list of rectangles that partitions the image: every pixel lies
\* in exactly one tile, every tile lies inside the image, and every tile is
\* between 1 and maxTileDim wide and high.
C8_GridPartitionsImage ==
    epc = "gridDone" =>
        LET W == capt.targetWidth
            H == capt.targetHeight
        IN  /\ \A gx \in 0 .. (W - 1), gy \in 0 .. (H - 1) :
                  Cardinality({k \in 1 .. Len(tiles) : InTile(tiles[k], gx, gy)}) = 1
            /\ \A k \in 1 .. Len(tiles) :
                  /\ 1 <= tiles[k].width /\ tiles[k].width <= maxTileSize
                  /\ 1 <= tiles[k].height /\ tiles[k].height <= maxTileSize
                  /\ 0 <= tiles[k].x /\ tiles[k].x + tiles[k].width <= W
                  /\ 0 <= tiles[k].y /\ tiles[k].y + tiles[k].height <= H
            /\ \A k, j \in 1 .. Len(tiles) :
                  k < j => \/ tiles[k].y < tiles[j].y
                           \/ (tiles[k].y = tiles[j].y /\ tiles[k].x < tiles[j].x)

\* a grid of several rows and columns whose last row and column are smaller
C8_Witness ==
    /\ epc = "gridDone"
    /\ Len(tiles) >= 6
    /\ tiles[Len(tiles)].width < maxTileSize
    /\ tiles[Len(tiles)].height < maxTileSize
    /\ tiles[1].width = maxTileSize

\* C9: in a tiled export region detection runs exactly once, at the full
\* target resolution, before the first tile is rendered; every tile's region
\* data is the tile's part of that one result.
C9_DetectOnceAtFullResolution ==
    (Tiled /\ epc # "idle") =>
        /\ detectLog = <<ExportDims>>
        /\ fullRegionData = detectRegions(capt.shapes.ink, capt.targetWidth, capt.targetHeight)
        /\ \A k \in 1 .. Len(renderedTiles) :
              renderedTiles[k].data
                = extractTileRegionData(fullRegionData, tiles[k], capt.targetWidth,
                                        capt.targetHeight)

\* a finished tiled generateForAPI run with at least three tiles
C9_Witness ==
    /\ Tiled
    /\ path = "api"
    /\ epc = "done"
    /\ Len(renderedTiles) >= 3
    /\ Len(detectLog) = 1

\* C10: in a tiled export an image is composited and handed out only after
\* every tile of the grid has been rendered, one rendered tile per grid tile,
\* and it is the complete image; an export that stopped at a throwing tile
\* hands out nothing and does nothing more.
C10_OutputOnlyWhenComplete ==
    Tiled =>
        /\ Len(output) <= 1
        /\ Len(renderedTiles) = tileIdx
        /\ \A k \in 1 .. Len(renderedTiles) : renderedTiles[k].info = tiles[k]
        /\ output # <<>> =>
              /\ epc = "done"
              /\ Len(renderedTiles) = Len(tiles)
              /\ output[1] = compositeTiles(renderedTiles, capt.targetWidth, capt.targetHeight)
              /\ \A g \in DOMAIN output[1] : output[1][g] # BlankPixel
        /\ epc = "failed" => (output = <<>> /\ ~ENABLED NextExport)

\* an export that stopped at a throwing tile after rendering some tiles
C10_Witness ==
    /\ Tiled
    /\ path = "export"
    /\ epc = "failed"
    /\ Len(renderedTiles) >= 2
    /\ Len(renderedTiles) < Len(tiles)

\* ------------------------------------------------------------------------
\* ShaderRenderer: construction, init, render; and the order in which the
\* sketch calls them
\* ------------------------------------------------------------------------
\* Bounds: render calls recorded, ShaderRenderer instances alive, tiles of
\* one export.
MaxRenderCalls == 3
MaxRenderers == 4
MaxRenderTiles == 2

\* constructor: private shader: p5.Shader | null = null
newShaderRenderer(owner) ==
    [shader |-> FALSE, texUpdates |-> 0, uniformWrites |-> 0, draws |-> 0,
     owner |-> owner]

\* init(): this.shader = this.renderer.createShader(vertShader, fragShader)
ShaderRendererInit(r) == [r EXCEPT !.shader = TRUE]

\* Variant of render without the check of this.shader.
ShaderRendererRenderUnchecked(r) ==
    [after |-> [r EXCEPT !.texUpdates = @ + 1, !.uniformWrites = @ + 1,
                         !.draws = @ + 1],
     threw |-> FALSE]

\* render(...): throws when this.shader is null, before anything else; else
\* updates the textures, writes the uniforms and draws the quad
ShaderRendererRender(r) ==
    IF ~r.shader
    THEN [after |-> r, threw |-> TRUE]
    ELSE [after |-> [r EXCEPT !.texUpdates = @ + 1, !.uniformWrites = @ + 1,
                              !.draws = @ + 1],
          threw |-> FALSE]

\* one render call on instance i by caller who, recorded
RenderCallOn(i, who) ==
    LET res == ShaderRendererRender(renderers[i])
    IN  /\ renderers' = [renderers EXCEPT ![i] = res.after]
        /\ renderCalls' = Append(renderCalls,
                                 [r |-> i, by |-> who, before |-> renderers[i],
                                  after |-> res.after, threw |-> res.threw])

InitRenderer ==
    /\ ParkedExceptRenderer
    /\ renderers = <<>>
    /\ renderCalls = <<>>
    /\ spc = "boot"
    /\ cur = 0
    /\ tilesLeft = 0

\* p.setup: shaderRenderer = new ShaderRenderer(p); shaderRenderer.init();
\* then the UI callbacks and window.cueAPI exist
Setup ==
    /\ spc = "boot"
    /\ renderers' = Append(renderers, ShaderRendererInit(newShaderRenderer("sketch")))
    /\ spc' = "idle"
    /\ UNCHANGED <<renderCalls, cur, tilesLeft>>
    /\ UNCHANGED exceptRendererVars

\* generateArt -> renderPreview -> shaderRenderer.render, from onGenerate or
\* mousePressed on the canvas; it can run while an export awaits
GenerateArt ==
    /\ spc \in {"idle", "construct"}
    /\ Len(renderCalls) < MaxRenderCalls
    /\ RenderCallOn(1, "sketch")
    /\ UNCHANGED <<spc, cur, tilesLeft>>
    /\ UNCHANGED exceptRendererVars

\* exportFullResolution / generateForAPI entered: one render surface for the
\* direct branch, or one per tile
ExportStart ==
    /\ spc = "idle"
    /\ \E n \in 1 .. MaxRenderTiles :
          /\ Len(renderers) + n <= MaxRenderers
          /\ tilesLeft' = n
    /\ spc' = "construct"
    /\ UNCHANGED <<renderers, renderCalls, cur>>
    /\ UNCHANGED exceptRendererVars

\* const tileRenderer = new ShaderRenderer(tileP5, p)
ExportConstruct ==
    /\ spc = "construct"
    /\ renderers' = Append(renderers, newShaderRenderer("sketch"))
    /\ cur' = Len(renderers) + 1
    /\ spc' = "init"
    /\ UNCHANGED <<renderCalls, tilesLeft>>
    /\ UNCHANGED exceptRendererVars

\* tileRenderer.init()
ExportInit ==
    /\ spc = "init"
    /\ renderers' = [renderers EXCEPT ![cur] = ShaderRendererInit(@)]
    /\ spc' = "render"
    /\ UNCHANGED <<renderCalls, cur, tilesLeft>>
    /\ UNCHANGED exceptRendererVars

\* tileRenderer.render(...): a throw ends the export, else the next tile
ExportRender ==
    /\ spc = "render"
    /\ Len(renderCalls) < MaxRenderCalls
    /\ RenderCallOn(cur, "sketch")
    /\ IF ShaderRendererRender(renderers[cur]).threw
       THEN /\ tilesLeft' = 0
            /\ spc' = "idle"
       ELSE /\ tilesLeft' = tilesLeft - 1
            /\ spc' = IF tilesLeft > 1 THEN "construct" ELSE "idle"
    /\ UNCHANGED cur
    /\ UNCHANGED exceptRendererVars

\* any other user of the exported class: new ShaderRenderer(...)
ClientConstruct ==
    /\ spc # "boot"
    /\ Len(renderers) < MaxRenderers
    /\ renderers' = Append(renderers, newShaderRenderer("client"))
    /\ UNCHANGED <<renderCalls, spc, cur, tilesLeft>>
    /\ UNCHANGED exceptRendererVars

\* any other user: init() on its own instance
ClientInit ==
    /\ \E i \in 1 .. Len(renderers) :
          /\ renderers[i].owner = "client"
          /\ ~renderers[i].shader
          /\ renderers' = [renderers EXCEPT ![i] = ShaderRendererInit(@)]
    /\ UNCHANGED <<renderCalls, spc, cur, tilesLeft>>
    /\ UNCHANGED exceptRendererVars

\* any other user: render(...) on its own instance, initialised or not
ClientRender ==
    /\ Len(renderCalls) < MaxRenderCalls
    /\ \E i \in 1 .. Len(renderers) :
          /\ renderers[i].owner = "client"
          /\ RenderCallOn(i, "client")
    /\ UNCHANGED <<spc, cur, tilesLeft>>
    /\ UNCHANGED exceptRendererVars

NextRenderer ==
    \/ Setup
    \/ GenerateArt
    \/ ExportStart
    \/ ExportConstruct
    \/ ExportInit
    \/ ExportRender
    \/ ClientConstruct
    \/ ClientInit
    \/ ClientRender

SpecRenderer == InitRenderer /\ [][NextRenderer]_vars

\* C11: render on an instance whose init has not run throws and updates no
\* texture, writes no uniform and draws nothing; every render call the
\* sketch makes (preview, direct export, tile) is on an initialised instance
\* and does not throw.
C11_RenderNeedsInit ==
    /\ \A k \in 1 .. Len(renderCalls) :
          LET c == renderCalls[k]
          IN  /\ ~c.before.shader => (c.threw /\ c.after = c.before)
              /\ c.before.shader => (~c.threw /\ c.after.draws = c.before.draws + 1)
              /\ c.by = "sketch" => (c.before.shader /\ ~c.threw)
    /\ \A i \in 1 .. Len(renderers) :
          ~renderers[i].shader =>
              (renderers[i].texUpdates = 0 /\ renderers[i].uniformWrites = 0
               /\ renderers[i].draws = 0)

\* a render before init that threw, a preview render and a tile render
C11_Witness ==
    /\ \E k \in 1 .. Len(renderCalls) :
          renderCalls[k].by = "client" /\ renderCalls[k].threw
    /\ \E k \in 1 .. Len(renderCalls) :
          renderCalls[k].by = "sketch" /\ renderCalls[k].r = 1
    /\ \E k \in 1 .. Len(renderCalls) :
          renderCalls[k].by = "sketch" /\ renderCalls[k].r > 1

\* ------------------------------------------------------------------------
\* JavaScript numbers: IEEE-754 binary64 with round-to-nearest-even.
\* A number is [s, m, e] standing for s * m * 2^e, with m a natural number of
\* exactly MantissaBits bits kept as little-endian limbs of base LimbBase
\* (zero: m = <<>>). The values met here are far from overflow and from the
\* subnormal range.
\* ------------------------------------------------------------------------
MantissaBits == 53
LimbBits == 14
LimbBase == 2 ^ LimbBits

Limb(a, i) == IF i <= Len(a) THEN a[i] ELSE 0

RECURSIVE BTrim(_)
BTrim(a) ==
    IF a = <<>> THEN <<>>
    ELSE IF a[Len(a)] = 0 THEN BTrim(SubSeq(a, 1, Len(a) - 1))
    ELSE a

BFromInt(k) == BTrim(<<k % LimbBase, k \div LimbBase>>)

RECURSIVE BAddFrom(_, _, _, _)
BAddFrom(a, b, i, c) ==
    IF i > Len(a) /\ i > Len(b)
    THEN IF c = 0 THEN <<>> ELSE <<c>>
    ELSE LET sum == Limb(a, i) + Limb(b, i) + c
         IN  <<sum % LimbBase>> \o BAddFrom(a, b, i + 1, sum \div LimbBase)

BAdd(a, b) == BAddFrom(a, b, 1, 0)

RECURSIVE BSubFrom(_, _, _, _)
BSubFrom(a, b, i, br) ==
    IF i > Len(a)
    THEN <<>>
    ELSE LET d == Limb(a, i) - Limb(b, i) - br
         IN  IF d < 0
             THEN <<d + LimbBase>> \o BSubFrom(a, b, i + 1, 1)
             ELSE <<d>> \o BSubFrom(a, b, i + 1, 0)

\* a - b for a >= b
BSub(a, b) == BTrim(BSubFrom(a, b, 1, 0))

\* -1, 0, 1 as a < b, a = b, a > b
BCmp(a, b) ==
    IF Len(a) # Len(b)
    THEN IF Len(a) < Len(b) THEN -1 ELSE 1
    ELSE LET D == {i \in 1 .. Len(a) : a[i] # b[i]}
         IN  IF D = {} THEN 0
             ELSE LET k == CHOOSE i \in D : \A j \in D : j <= i
                  IN  IF a[k] < b[k] THEN -1 ELSE 1

RECURSIVE BMulSmallFrom(_, _, _, _)
BMulSmallFrom(a, k, i, c) ==
    IF i > Len(a)
    THEN IF c = 0 THEN <<>> ELSE <<c>>
    ELSE LET prod == a[i] * k + c
         IN  <<prod % LimbBase>> \o BMulSmallFrom(a, k, i + 1, prod \div LimbBase)

\* a * k for 0 <= k < LimbBase
BMulSmall(a, k) == BTrim(BMulSmallFrom(a, k, 1, 0))

RECURSIVE BMulFrom(_, _, _)
BMulFrom(a, b, j) ==
    IF j > Len(b)
    THEN <<>>
    ELSE BAdd(BMulSmall(a, b[j]), <<0>> \o BMulFrom(a, b, j + 1))

BMul(a, b) == BTrim(BMulFrom(a, b, 1))

\* a * 2^n
BShl(a, n) ==
    IF a = <<>> THEN <<>>
    ELSE [i \in 1 .. (n \div LimbBits) |-> 0] \o BMulSmall(a, 2 ^ (n % LimbBits))

\* floor(a / 2^n)
BShr(a, n) ==
    LET drop == n \div LimbBits
        k    == 2 ^ (n % LimbBits)
        top  == IF drop >= Len(a) THEN <<>> ELSE SubSeq(a, drop + 1, Len(a))
    IN  BTrim([i \in 1 .. Len(top) |->
                  (top[i] \div k) + (Limb(top, i + 1) % k) * (LimbBase \div k)])

RECURSIVE BDivSmallFrom(_, _, _, _)
BDivSmallFrom(a, k, i, rem) ==
    IF i = 0
    THEN [q |-> <<>>, r |-> rem]
    ELSE LET cur2 == rem * LimbBase + a[i]
             rest == BDivSmallFrom(a, k, i - 1, cur2 % k)
         IN  [q |-> Append(rest.q, cur2 \div k), r |-> rest.r]

\* quotient and remainder of a / k for 0 < k < LimbBase
BDivSmall(a, k) ==
    LET res == BDivSmallFrom(a, k, Len(a), 0)
    IN  [q |-> BTrim(res.q), r |-> res.r]

BBitLen(a) ==
    IF a = <<>> THEN 0
    ELSE LimbBits * (Len(a) - 1)
           + Min({n \in 1 .. LimbBits : a[Len(a)] < 2 ^ n})

Zero == [s |-> 1, m |-> <<>>, e |-> 0]

\* the binary64 nearest to s * m * 2^e, ties to even; len is the bit length
\* of m, q the mantissa rounded down, q2 the mantissa rounded
RoundNearestEven(s, m, e) ==
    CHOOSE result \in
      {IF len = 0 THEN Zero
       ELSE IF len <= MantissaBits
       THEN [s |-> s, m |-> BShl(m, MantissaBits - len), e |-> e - (MantissaBits - len)]
       ELSE CHOOSE rounded \in
              {IF BBitLen(q2) > MantissaBits
               THEN [s |-> s, m |-> BShr(q2, 1), e |-> e + (len - MantissaBits) + 1]
               ELSE [s |-> s, m |-> q2, e |-> e + (len - MantissaBits)]
                 : q2 \in {CHOOSE up \in
                             {IF cmp > 0 \/ (cmp = 0 /\ q[1] % 2 = 1)
                              THEN BAdd(q, <<1>>) ELSE q
                                : cmp \in {BCmp(BSub(m, BShl(q, len - MantissaBits)),
                                                BShl(<<1>>, len - MantissaBits - 1))}} : TRUE
                             : q \in {BShr(m, len - MantissaBits)}}} : TRUE
         : len \in {BBitLen(m)}} : TRUE

Neg(x) == IF x.m = <<>> THEN x ELSE [x EXCEPT !.s = -x.s]

\* x + y: both mantissas at the smaller exponent, added or subtracted, rounded
FAdd(x0, y0) ==
    CHOOSE result \in
      {IF x.m = <<>> THEN y
       ELSE IF y.m = <<>> THEN x
       ELSE CHOOSE sum \in
              {RoundNearestEven(IF x.s = y.s \/ BCmp(ax, ay) >= 0 THEN x.s ELSE y.s,
                                IF x.s = y.s THEN BAdd(ax, ay)
                                ELSE IF BCmp(ax, ay) >= 0 THEN BSub(ax, ay)
                                ELSE BSub(ay, ax),
                                IF x.e < y.e THEN x.e ELSE y.e)
                 : ax \in {BShl(x.m, x.e - (IF x.e < y.e THEN x.e ELSE y.e))},
                   ay \in {BShl(y.m, y.e - (IF x.e < y.e THEN x.e ELSE y.e))}} : TRUE
         : x \in {x0}, y \in {y0}} : TRUE

\* x - y
FSub(x, y) == FAdd(x, Neg(y))

\* x * y
FMul(x0, y0) ==
    CHOOSE result \in
      {IF x.m = <<>> \/ y.m = <<>> THEN Zero
       ELSE RoundNearestEven(x.s * y.s, BMul(x.m, y.m), x.e + y.e)
         : x \in {x0}, y \in {y0}} : TRUE

\* x < y, x <= y
FLt(x, y) == \E d \in {FSub(x, y)} : d.m # <<>> /\ d.s = -1

FLe(x, y) == \E d \in {FSub(y, x)} : d.m = <<>> \/ d.s = 1

\* Math.min, Math.max
MathMin(x, y) == IF FLt(y, x) THEN y ELSE x

MathMax(x, y) == IF FLt(x, y) THEN y ELSE x

\* the number nearest to the fraction n/d (0 < d < LimbBase), which is what a
\* decimal literal with numerator n and a power of ten d denotes
Lit(n, d) ==
    LET scaled == BShl(BFromInt(n), 5 * LimbBits)
        dv     == BDivSmall(scaled, d)
        sticky == IF dv.r = 0 THEN BShl(dv.q, 1) ELSE BAdd(BShl(dv.q, 1), <<1>>)
    IN  RoundNearestEven(1, sticky, -(5 * LimbBits) - 1)

\* the number k / 2^bits
Dyadic(k, bits) == RoundNearestEven(1, BFromInt(k), -bits)

\* ------------------------------------------------------------------------
\* Config resolver: resolveValue, resolveConfig over CONFIG_TEMPLATE
\* ------------------------------------------------------------------------
\* Bounds: dimension values are k / DimSteps, beta samples k / SampleSteps.
DimSteps == 2
SampleSteps == 4

Half == Dyadic(1, 1)
One == Dyadic(1, 0)
Two == Dyadic(2, 0)

\* a SeededValue: range, and seed (<<>> when absent, else <<[dimension, influence]>>);
\* its beta shape acts only through the sample drawn
Seeded(low, high, seed) == [range |-> <<low, high>>, seed |-> seed]

Seed(dimension, influence) == <<[dimension |-> dimension, influence |-> influence]>>

\* a plain number in a ConfigValue position
Plain(x) == [number |-> x]

isSeededValue(v) == "range" \in DOMAIN v

CONFIG_TEMPLATE ==
    [lines |->
        [count  |-> Seeded(Lit(2, 1), Lit(8, 1), Seed("arousal", Lit(7, 10))),
         weight |-> Seeded(Lit(6, 1), Lit(12, 1), <<>>)],
     circles |->
        [count     |-> Seeded(Lit(0, 1), Lit(4, 1), Seed("arousal", Lit(6, 10))),
         weight    |-> Seeded(Lit(6, 1), Lit(12, 1), <<>>),
         radiusMin |-> Plain(Lit(200, 1)),
         radiusMax |-> Plain(Lit(600, 1))],
     colors |->
        [hueBase    |-> Seeded(Lit(0, 1), Lit(1, 1), Seed("valence", Lit(8, 10))),
         hueRange   |-> Seeded(Lit(1, 10), Lit(3, 10), Seed("valence", Lit(4, 10))),
         saturation |-> Seeded(Lit(35, 100), Lit(85, 100), Seed("valence", Lit(6, 10))),
         brightness |-> Seeded(Lit(5, 10), Lit(95, 100), Seed("valence", Lit(5, 10)))],
     stainedGlass |->
        [centerGlow     |-> Seeded(Lit(15, 100), Lit(45, 100), Seed("focus", Lit(5, 10))),
         edgeDarken     |-> Seeded(Lit(3, 100), Lit(18, 100), Seed("focus", Lit(4, 10))),
         glowFalloff    |-> Plain(Lit(100, 1)),
         noiseScale     |-> Plain(Lit(25, 10)),
         noiseIntensity |-> Seeded(Lit(5, 100), Lit(3, 10), Seed("focus", Lit(5, 10)))],
     watercolor |->
        [grainIntensity   |-> Seeded(Lit(8, 1000), Lit(5, 100), Seed("focus", Lit(4, 10))),
         wobbleAmount     |-> Seeded(Lit(1, 1), Lit(10, 1), Seed("focus", Lit(6, 10))),
         wobbleScale      |-> Seeded(Lit(1, 1000), Lit(5, 1000), Seed("focus", Lit(3, 10))),
         colorBleed       |-> Seeded(Lit(2, 100), Lit(25, 100), Seed("focus", Lit(5, 10))),
         saturationBleed  |-> Seeded(Lit(3, 100), Lit(25, 100), Seed("focus", Lit(4, 10))),
         bleedScale       |-> Plain(Lit(5, 10000)),
         edgeIrregularity |-> Plain(Lit(0, 1))],
     leading |->
        [roundingRadius |-> Plain(Lit(15, 1)),
         thickness      |-> Plain(Lit(4, 1))]]

\* lerp(a, b, t) = a + (b - a) * t
lerp(a, b, t) == FAdd(a, FMul(FSub(b, a), t))

\* Variant of resolveValue whose neutral dimension value is 0.
resolveValueNeutralZero(value, dimensions, t) ==
    LET low  == value.range[1]
        high == value.range[2]
        t2   == IF value.seed # <<>>
                THEN LET dimensionValue == dimensions[value.seed[1].dimension]
                         influence      == value.seed[1].influence
                         shifted == FAdd(t, FMul(FMul(dimensionValue, influence), Two))
                     IN  MathMax(Zero, MathMin(One, shifted))
                ELSE t
    IN  lerp(low, high, t2)

\* resolveValue(value, dimensions), t being what sampleBeta(alpha, beta) returned
resolveValue(value, dimensions, t) ==
    LET low  == value.range[1]
        high == value.range[2]
        t2   == IF value.seed # <<>>
                THEN LET dimensionValue == dimensions[value.seed[1].dimension]
                         influence      == value.seed[1].influence
                         shifted == FAdd(t, FMul(FMul(FSub(dimensionValue, Half),
                                                      influence), Two))
                     IN  MathMax(Zero, MathMin(One, shifted))
                ELSE t
    IN  lerp(low, high, t2)

\* resolveConfigValue(value, dimensions): numbers pass through
resolveConfigValue(value, dimensions, t) ==
    IF isSeededValue(value) THEN resolveValue(value, dimensions, t) ELSE value.number

\* the ConfigValue positions of the template in the order resolveConfig
\* evaluates them
ConfigFields ==
    << <<"lines", "count">>, <<"lines", "weight">>,
       <<"circles", "count">>, <<"circles", "weight">>,
       <<"circles", "radiusMin">>, <<"circles", "radiusMax">>,
       <<"colors", "hueBase">>, <<"colors", "hueRange">>,
       <<"colors", "saturation">>, <<"colors", "brightness">>,
       <<"stainedGlass", "centerGlow">>, <<"stainedGlass", "edgeDarken">>,
       <<"stainedGlass", "glowFalloff">>, <<"stainedGlass", "noiseScale">>,
       <<"stainedGlass", "noiseIntensity">>,
       <<"watercolor", "grainIntensity">>, <<"watercolor", "wobbleAmount">>,
       <<"watercolor", "wobbleScale">>, <<"watercolor", "colorBleed">>,
       <<"watercolor", "saturationBleed">>, <<"watercolor", "bleedScale">>,
       <<"watercolor", "edgeIrregularity">>,
       <<"leading", "roundingRadius">>, <<"leading", "thickness">> >>

FieldOf(template, j) == template[ConfigFields[j][1]][ConfigFields[j][2]]

\* the SeededValues of the template, and two with the extreme influences
TemplateValues ==
    {FieldOf(CONFIG_TEMPLATE, j) :
        j \in {i \in 1 .. Len(ConfigFields) : isSeededValue(FieldOf(CONFIG_TEMPLATE, i))}}

SeededValues ==
    TemplateValues
    \cup {Seeded(Lit(0, 1), Lit(1, 1), Seed("valence", Lit(1, 1))),
          Seeded(Lit(1, 10), Lit(3, 10), Seed("arousal", Lit(0, 1)))}

DimensionValues == {Lit(k, DimSteps) : k \in 0 .. DimSteps} \cup {Half}

BToInt(a) == Limb(a, 1) + Limb(a, 2) * LimbBase

\* Math.round(x) = floor(x + 0.5), for |x| below 2^28
MathRound(x) ==
    IF x.m = <<>> THEN 0
    ELSE IF x.e >= 0 THEN x.s * BToInt(BShl(x.m, x.e))
    ELSE IF x.s = 1
    THEN BToInt(BShr(BAdd(x.m, BShl(<<1>>, (-x.e) - 1)), -x.e))
    ELSE -BToInt(BShr(BAdd(x.m, BSub(BShl(<<1>>, (-x.e) - 1), <<1>>)), -x.e))

\* how many beta samples have been drawn when field j has been resolved:
\* one per SeededValue
SamplesUpTo(template, j) ==
    Cardinality({i \in 1 .. j : isSeededValue(FieldOf(template, i))})

StreamLen == Cardinality({j \in 1 .. Len(ConfigFields) :
                             isSeededValue(FieldOf(CONFIG_TEMPLATE, j))})

\* the resolved values of all fields, field j taking the sample at
\* position SamplesUpTo(template, j) of the stream
resolveFields(template, dimensions, stream) ==
    [j \in 1 .. Len(ConfigFields) |->
        resolveConfigValue(FieldOf(template, j), dimensions,
                           stream[IF SamplesUpTo(template, j) = 0 THEN 1
                                  ELSE SamplesUpTo(template, j)])]

AppConfig(r) ==
    [lines |-> [count |-> MathRound(r[1]), weight |-> r[2]],
     circles |-> [count |-> MathRound(r[3]), weight |-> r[4],
                  radiusMin |-> r[5], radiusMax |-> r[6]],
     colors |-> [hueBase |-> r[7], hueRange |-> r[8], saturation |-> r[9],
                 brightness |-> r[10]],
     stainedGlass |-> [centerGlow |-> r[11], edgeDarken |-> r[12],
                       glowFalloff |-> r[13], noiseScale |-> r[14],
                       noiseIntensity |-> r[15]],
     watercolor |-> [grainIntensity |-> r[16], wobbleAmount |-> r[17],
                     wobbleScale |-> r[18], colorBleed |-> r[19],
                     saturationBleed |-> r[20], bleedScale |-> r[21],
                     edgeIrregularity |-> r[22]],
     leading |-> [roundingRadius |-> r[23], thickness |-> r[24]]]

\* resolveConfig(template, dimensions), stream being the beta samples the
\* random source gives to the sampleBeta calls, in order
resolveConfig(template, dimensions, stream) ==
    AppConfig(resolveFields(template, dimensions, stream))

\* random sources: the samples they give
Streams ==
    {[i \in 1 .. StreamLen |->
         Lit((k + i * j) % (SampleSteps + 1), SampleSteps)] :
       k \in 0 .. SampleSteps, j \in 0 .. 1}

InitResolve ==
    /\ ParkedExceptResolve
    /\ rsDimensions \in [{"valence", "arousal", "focus"} -> DimensionValues]
    /\ rsStream \in Streams
    /\ rsCall = <<>>
    /\ rsConfigs = <<>>
    /\ rspc = "ready"

\* one call of resolveValue on a SeededValue
ResolveValueCall ==
    /\ rspc = "ready"
    /\ \E v \in SeededValues :
          rsCall' = <<[value  |-> v,
                       t      |-> rsStream[1],
                       result |-> resolveValue(v, rsDimensions, rsStream[1])]>>
    /\ rspc' = "value"
    /\ UNCHANGED <<rsDimensions, rsStream, rsConfigs>>
    /\ UNCHANGED exceptResolveVars

\* one call of resolveConfig with the template, the dimensions and the
\* random source as given
ResolveConfigCall ==
    /\ rspc = "ready"
    /\ rsConfigs' = Append(rsConfigs, resolveConfig(CONFIG_TEMPLATE, rsDimensions, rsStream))
    /\ rspc' = "config"
    /\ UNCHANGED <<rsDimensions, rsStream, rsCall>>
    /\ UNCHANGED exceptResolveVars

NextResolve ==
    \/ ResolveValueCall
    \/ ResolveConfigCall

SpecResolve == InitResolve /\ [][NextResolve]_vars

\* C12: for every SeededValue, beta sample in [0,1], dimension value in
\* [0,1] and influence in [0,1], resolveValue returns a value within the
\* value's range [low, high].
C12_ResolvedWithinRange ==
    rsCall # <<>> =>
        /\ FLe(rsCall[1].value.range[1], rsCall[1].result)
        /\ FLe(rsCall[1].result, rsCall[1].value.range[2])

\* C13: with a coupling whose dimension value is 0.5, resolveValue returns
\* for the same beta sample exactly what it returns for the same SeededValue
\* without coupling, whatever the influence.
C13_NeutralDimension ==
    (/\ rsCall # <<>>
     /\ rsCall[1].value.seed # <<>>
     /\ rsDimensions[rsCall[1].value.seed[1].dimension] = Half)
    => rsCall[1].result
         = resolveValue([rsCall[1].value EXCEPT !.seed = <<>>], rsDimensions, rsCall[1].t)

\* a coupled value with non-zero influence resolved at the neutral dimension
\* value from a sample strictly inside (0, 1)
C13_Witness ==
    /\ rsCall # <<>>
    /\ rsCall[1].value.seed # <<>>
    /\ rsCall[1].value.seed[1].influence # Zero
    /\ rsDimensions[rsCall[1].value.seed[1].dimension] = Half
    /\ rsCall[1].t = Lit(1, 4)
    /\ rsCall[1].result # rsCall[1].value.range[1]

\* ------------------------------------------------------------------------
\* Shape generators: generateEdgeToEdgeLine, generateCircle
\* ------------------------------------------------------------------------
\* Bound: the random source gives k / RandSteps for k < RandSteps, and the
\* largest number below 1.
RandSteps == 4

\* the largest binary64 below 1
RandMax == RoundNearestEven(1, BSub(BShl(<<1>>, MantissaBits), <<1>>), -MantissaBits)

\* what one draw of the random source can be: a number in [0, 1)
RandomDraws == {Lit(k, RandSteps) : k \in 0 .. (RandSteps - 1)} \cup {RandMax}

\* p.random(max) = rand * max
pRandom1(rand, max) == FMul(rand, max)

\* p.random(min, max) = rand * (max - min) + min, the two swapped when min > max
pRandom2(rand, min, max) ==
    IF FLt(max, min)
    THEN FAdd(FMul(rand, FSub(min, max)), max)
    ELSE FAdd(FMul(rand, FSub(max, min)), min)

\* Math.floor(x) for 0 <= x < 2^28
MathFloor(x) ==
    IF x.m = <<>> THEN 0
    ELSE IF x.e >= 0 THEN BToInt(BShl(x.m, x.e))
    ELSE BToInt(BShr(x.m, -x.e))

Num(n) == Lit(n, 1)

\* getRandomEdge: edges[Math.floor(p.random(4))]; undefined beyond the array
getRandomEdge(rand) ==
    LET edges == <<"top", "bottom", "left", "right">>
        i     == MathFloor(pRandom1(rand, Num(4)))
    IN  IF i < Len(edges) THEN edges[i + 1] ELSE "undefined"

\* getPointOnEdge(p, edge, width, height)
getPointOnEdge(rand, edge, w, h) ==
    CASE edge = "top"    -> [x |-> pRandom1(rand, Num(w)), y |-> Zero]
      [] edge = "bottom" -> [x |-> pRandom1(rand, Num(w)), y |-> Num(h)]
      [] edge = "left"   -> [x |-> Zero, y |-> pRandom1(rand, Num(h))]
      [] edge = "right"  -> [x |-> Num(w), y |-> pRandom1(rand, Num(h))]
      [] OTHER           -> "undefined"

\* a ShapeConfig's radius range: <<>> when radiusMin / radiusMax are undefined
RadiusRanges == {<<>>, <<Num(50), Num(120)>>}

SizeScales == {One, Lit(1, 4)}

\* generateCircle(p, index, width, height, config, colors, sizeScale) with
\* the three draws for radius, center.x, center.y
generateCircle(w, h, radii, sizeScale, r1, r2, r3) ==
    LET rMin            == IF radii = <<>> THEN Num(200) ELSE radii[1]
        rMax            == IF radii = <<>> THEN Num(600) ELSE radii[2]
        scaledRadiusMin == FMul(rMin, sizeScale)
        scaledRadiusMax == FMul(rMax, sizeScale)
        radius          == pRandom2(r1, scaledRadiusMin, scaledRadiusMax)
        margin          == FMul(radius, Half)
    IN  [center |-> [x |-> pRandom2(r2, margin, FSub(Num(w), margin)),
                     y |-> pRandom2(r3, margin, FSub(Num(h), margin))],
         radius |-> radius]

GenCanvasSizes == {<<100, 100>>, <<800, 600>>, <<1920, 1080>>}

InitGen ==
    /\ ParkedExceptGen
    /\ \E sz \in GenCanvasSizes :
          /\ gnWidth = sz[1]
          /\ gnHeight = sz[2]
    /\ startEdge = "none"
    /\ endEdge = "none"
    /\ gnLine = <<>>
    /\ gnCircle = <<>>
    /\ gpc = "idle"

\* const startEdge = getRandomEdge(p)
LineStart ==
    /\ gpc = "idle"
    /\ \E r \in RandomDraws : startEdge' = getRandomEdge(r)
    /\ gpc' = "endEdge"
    /\ UNCHANGED <<gnWidth, gnHeight, endEdge, gnLine, gnCircle>>
    /\ UNCHANGED exceptGenVars

\* let endEdge = getRandomEdge(p)
LinePickEnd ==
    /\ gpc = "endEdge"
    /\ \E r \in RandomDraws : endEdge' = getRandomEdge(r)
    /\ gpc' = "while"
    /\ UNCHANGED <<gnWidth, gnHeight, startEdge, gnLine, gnCircle>>
    /\ UNCHANGED exceptGenVars

\* while (endEdge === startEdge) endEdge = getRandomEdge(p)
LineRetry ==
    /\ gpc = "while"
    /\ endEdge = startEdge
    /\ \E r \in RandomDraws : endEdge' = getRandomEdge(r)
    /\ UNCHANGED <<gnWidth, gnHeight, startEdge, gnLine, gnCircle, gpc>>
    /\ UNCHANGED exceptGenVars

\* Variant of LineFinish that does not wait for the loop to end.
LineFinishWithoutLoop ==
    /\ gpc = "while"
    /\ \E r1, r2 \in RandomDraws :
          gnLine' = <<[start |-> getPointOnEdge(r1, startEdge, gnWidth, gnHeight),
                       end   |-> getPointOnEdge(r2, endEdge, gnWidth, gnHeight)]>>
    /\ gpc' = "line"
    /\ UNCHANGED <<gnWidth, gnHeight, startEdge, endEdge, gnCircle>>
    /\ UNCHANGED exceptGenVars

\* the loop has ended: the returned LineConfig's start and end
LineFinish ==
    /\ gpc = "while"
    /\ endEdge # startEdge
    /\ \E r1, r2 \in RandomDraws :
          gnLine' = <<[start |-> getPointOnEdge(r1, startEdge, gnWidth, gnHeight),
                       end   |-> getPointOnEdge(r2, endEdge, gnWidth, gnHeight)]>>
    /\ gpc' = "line"
    /\ UNCHANGED <<gnWidth, gnHeight, startEdge, endEdge, gnCircle>>
    /\ UNCHANGED exceptGenVars

\* one generateCircle call
CircleCall ==
    /\ gpc = "idle"
    /\ \E radii \in RadiusRanges, sizeScale \in SizeScales, r1, r2, r3 \in RandomDraws :
          gnCircle' = <<generateCircle(gnWidth, gnHeight, radii, sizeScale, r1, r2, r3)>>
    /\ gpc' = "circle"
    /\ UNCHANGED <<gnWidth, gnHeight, startEdge, endEdge, gnLine>>
    /\ UNCHANGED exceptGenVars

NextGen ==
    \/ LineStart
    \/ LinePickEnd
    \/ LineRetry
    \/ LineFinish
    \/ CircleCall

SpecGen == InitGen /\ [][NextGen]_vars

\* the point lies on the named edge of the canvas
OnEdge(pt, edge) ==
    CASE edge = "top"    -> pt.y = Zero /\ FLe(Zero, pt.x) /\ FLe(pt.x, Num(gnWidth))
      [] edge = "bottom" -> pt.y = Num(gnHeight) /\ FLe(Zero, pt.x) /\ FLe(pt.x, Num(gnWidth))
      [] edge = "left"   -> pt.x = Zero /\ FLe(Zero, pt.y) /\ FLe(pt.y, Num(gnHeight))
      [] edge = "right"  -> pt.x = Num(gnWidth) /\ FLe(Zero, pt.y) /\ FLe(pt.y, Num(gnHeight))
      [] OTHER           -> FALSE

\* C15: every line generateEdgeToEdgeLine returns has its start and its end
\* on two different canvas edges, each exactly on the canvas boundary, for
\* every outcome of the random source.
C15_LineTouchesTwoEdges ==
    /\ startEdge \in {"none", "top", "bottom", "left", "right"}
    /\ endEdge \in {"none", "top", "bottom", "left", "right"}
    /\ gpc = "line" =>
          /\ startEdge # endEdge
          /\ OnEdge(gnLine[1].start, startEdge)
          /\ OnEdge(gnLine[1].end, endEdge)
          /\ \A pt \in {gnLine[1].start, gnLine[1].end} :
                \/ pt.x \in {Zero, Num(gnWidth)}
                \/ pt.y \in {Zero, Num(gnHeight)}

\* a returned line from the right edge to the top edge, drawn with the
\* largest outcome of the random source
C15_Witness ==
    /\ gpc = "line"
    /\ startEdge = "right"
    /\ endEdge = "top"
    /\ gnLine[1].end.x = pRandom1(RandMax, Num(gnWidth))

\* C16: the centre of every circle generateCircle returns is at least
\* radius * 0.5 away from each canvas edge, for every canvas size, size scale
\* and radius range.
C16_CentreKeepsMargin ==
    gpc = "circle" =>
        LET c      == gnCircle[1]
            margin == FMul(c.radius, Half)
        IN  /\ FLe(margin, c.center.x)
            /\ FLe(c.center.x, FSub(Num(gnWidth), margin))
            /\ FLe(margin, c.center.y)
            /\ FLe(c.center.y, FSub(Num(gnHeight), margin))

\* C17: every circle generateCircle returns lies fully within the canvas.
C17_CircleInsideCanvas ==
    gpc = "circle" =>
        LET c == gnCircle[1]
        IN  /\ FLe(Zero, FSub(c.center.x, c.radius))
            /\ FLe(FAdd(c.center.x, c.radius), Num(gnWidth))
            /\ FLe(Zero, FSub(c.center.y, c.radius))
            /\ FLe(FAdd(c.center.y, c.radius), Num(gnHeight))

\* ------------------------------------------------------------------------
\* Resolution modal: the generate button's click handler (ui.ts)
\* ------------------------------------------------------------------------
\* Bound: clicks the generate button dispatches.
MaxClicks == 2

\* getDefaultDimensions(): the neutral PromptDimensions
getDefaultDimensions == [valence |-> Half, arousal |-> Half, focus |-> Half]

\* what analyzePrompt can resolve to
AnalysisResults ==
    {[valence |-> One, arousal |-> Half, focus |-> Zero],
     [valence |-> Zero, arousal |-> One, focus |-> One]}

\* random sources the handler's generateSeededConfig call can meet
UiStreams == {s \in Streams : s[1] \in {Zero, One}}

\* generateSeededConfig(dimensions)
generateSeededConfig(dimensions, stream) ==
    resolveConfig(CONFIG_TEMPLATE, dimensions, stream)

InitUi ==
    /\ ParkedExceptUi
    /\ uiDimensions = <<>>
    /\ uiFailed = FALSE
    /\ uiClicks = 0
    /\ uiCalls = <<>>
    /\ uiOutcome = "none"
    /\ uiDisabled = FALSE
    /\ uipc = "modal"

\* click with a prompt and an API key: the handler awaits analyzePrompt
GenerateClickPrompt ==
    /\ uipc = "modal"
    /\ ~uiDisabled
    /\ uiClicks < MaxClicks
    /\ uiClicks' = uiClicks + 1
    /\ uiDisabled' = TRUE
    /\ uiDimensions' = <<>>
    /\ uiFailed' = FALSE
    /\ uiOutcome' = "pending"
    /\ uipc' = "await"
    /\ UNCHANGED uiCalls
    /\ UNCHANGED exceptUiVars

\* click with no prompt or no API key: dimensions = getDefaultDimensions()
GenerateClickPlain ==
    /\ uipc = "modal"
    /\ ~uiDisabled
    /\ uiClicks < MaxClicks
    /\ uiClicks' = uiClicks + 1
    /\ uiDisabled' = TRUE
    /\ uiDimensions' = getDefaultDimensions
    /\ uiFailed' = FALSE
    /\ uiOutcome' = "pending"
    /\ uipc' = "resolved"
    /\ UNCHANGED uiCalls
    /\ UNCHANGED exceptUiVars

\* analyzePrompt resolves
AnalyzeResolves ==
    /\ uipc = "await"
    /\ \E d \in AnalysisResults : uiDimensions' = d
    /\ uipc' = "resolved"
    /\ UNCHANGED <<uiFailed, uiClicks, uiCalls, uiOutcome, uiDisabled>>
    /\ UNCHANGED exceptUiVars

\* Variant of AnalyzeRejects with no catch: the rejection ends the handler.
AnalyzeRejectsUncaught ==
    /\ uipc = "await"
    /\ uiFailed' = TRUE
    /\ uiOutcome' = "rejected"
    /\ uiDisabled' = FALSE
    /\ uipc' = "modal"
    /\ UNCHANGED <<uiDimensions, uiClicks, uiCalls>>
    /\ UNCHANGED exceptUiVars

\* analyzePrompt rejects: the catch block takes the default dimensions and
\* starts the one-second wait
AnalyzeRejects ==
    /\ uipc = "await"
    /\ uiFailed' = TRUE
    /\ uiDimensions' = getDefaultDimensions
    /\ uipc' = "wait"
    /\ UNCHANGED <<uiClicks, uiCalls, uiOutcome, uiDisabled>>
    /\ UNCHANGED exceptUiVars

\* the catch block's timeout elapses
WaitElapses ==
    /\ uipc = "wait"
    /\ uipc' = "resolved"
    /\ UNCHANGED <<uiDimensions, uiFailed, uiClicks, uiCalls, uiOutcome, uiDisabled>>
    /\ UNCHANGED exceptUiVars

\* the rest of the handler: generateSeededConfig, button restored, modal
\* hidden, callbacks.onGenerate(width, height, seededConfig)
HandlerFinish ==
    /\ uipc = "resolved"
    /\ \E stream \in UiStreams :
          uiCalls' = Append(uiCalls,
                            [dimensions   |-> uiDimensions,
                             stream       |-> stream,
                             seededConfig |-> generateSeededConfig(uiDimensions, stream)])
    /\ uiDisabled' = FALSE
    /\ uiOutcome' = "fulfilled"
    /\ uipc' = "modal"
    /\ UNCHANGED <<uiDimensions, uiFailed, uiClicks>>
    /\ UNCHANGED exceptUiVars

NextUi ==
    \/ GenerateClickPrompt
    \/ GenerateClickPlain
    \/ AnalyzeResolves
    \/ AnalyzeRejects
    \/ WaitElapses
    \/ HandlerFinish

SpecUi == InitUi /\ [][NextUi]_vars

\* C18: when analyzePrompt rejects, the handler takes the neutral dimensions
\* {0.5, 0.5, 0.5}, still resolves a config from them and calls onGenerate
\* exactly once for the click; the handler's promise is never rejected.
C18_AnalysisFailureRecovered ==
    /\ uiOutcome # "rejected"
    /\ (uiFailed /\ uipc \in {"wait", "resolved"}) =>
          /\ uiDimensions = [valence |-> Lit(1, 2), arousal |-> Lit(1, 2), focus |-> Lit(1, 2)]
          /\ Len(uiCalls) = uiClicks - 1
    /\ (uiFailed /\ uipc = "modal") =>
          /\ Len(uiCalls) = uiClicks
          /\ uiOutcome = "fulfilled"
          /\ LET call == uiCalls[Len(uiCalls)]
             IN  /\ call.dimensions = [valence |-> Lit(1, 2), arousal |-> Lit(1, 2), focus |-> Lit(1, 2)]
                 /\ call.seededConfig =
                        resolveConfig(CONFIG_TEMPLATE,
                                      [valence |-> Lit(1, 2), arousal |-> Lit(1, 2), focus |-> Lit(1, 2)],
                                      call.stream)

\* a second click whose analysis was rejected has finished, after a first
\* click whose analysis resolved
C18_Witness ==
    /\ uiFailed
    /\ uipc = "modal"
    /\ uiOutcome = "fulfilled"
    /\ Len(uiCalls) = 2
    /\ uiCalls[1].dimensions \in AnalysisResults

\* ------------------------------------------------------------------------
\* Server: parseNumber, parseGenerateParams and the /api/generate route
\* ------------------------------------------------------------------------
\* Bound: length of a width / height query value, in characters (the word
\* Infinity counting as one).
MaxValueLen == 3

Digits == {"0", "9"}

ValueChars == Digits \cup {".", "-", "e", "x", "Infinity"}

\* query values: strings of up to MaxValueLen characters
QueryValues == UNION {[1 .. n -> ValueChars] : n \in 0 .. MaxValueLen}

At(str, i) == IF i \in 1 .. Len(str) THEN str[i] ELSE "end"

\* the first position from i on that holds no digit
DigitsEnd(str, i) == Min({j \in i .. (Len(str) + 1) : At(str, j) \notin Digits})

\* the number the digits str[i], ..., str[j - 1] write
RECURSIVE DigitsValue(_, _, _)
DigitsValue(str, i, j) ==
    IF j <= i THEN 0
    ELSE 10 * DigitsValue(str, i, j - 1) + (IF str[j - 1] = "9" THEN 9 ELSE 0)

NaN == [kind |-> "NaN"]

\* parseFloat(str): the longest prefix that is a decimal literal, as the
\* number s * n * 10^e, with the position after the prefix; NaN when there
\* is none
parseFloat(str) ==
    LET s      == IF At(str, 1) = "-" THEN -1 ELSE 1
        first  == IF At(str, 1) = "-" THEN 2 ELSE 1
        intEnd == DigitsEnd(str, first)
        hasDot == At(str, intEnd) = "."
        mEnd   == IF hasDot THEN DigitsEnd(str, intEnd + 1) ELSE intEnd
        nInt   == intEnd - first
        nFrac  == IF hasDot THEN mEnd - (intEnd + 1) ELSE 0
        eNeg   == At(str, mEnd + 1) = "-"
        eFirst == IF eNeg THEN mEnd + 2 ELSE mEnd + 1
        eEnd   == DigitsEnd(str, eFirst)
        hasExp == At(str, mEnd) = "e" /\ eEnd > eFirst
        exp    == IF ~hasExp THEN 0
                  ELSE IF eNeg THEN -DigitsValue(str, eFirst, eEnd)
                  ELSE DigitsValue(str, eFirst, eEnd)
    IN  IF At(str, first) = "Infinity"
        THEN [kind |-> "Infinity", s |-> s, end |-> first + 1]
        ELSE IF nInt + nFrac = 0 THEN NaN
        ELSE [kind |-> "number", s |-> s,
              n    |-> DigitsValue(str, first, intEnd) * (10 ^ nFrac)
                         + (IF hasDot THEN DigitsValue(str, intEnd + 1, mEnd) ELSE 0),
              e    |-> exp - nFrac,
              end  |-> IF hasExp THEN eEnd ELSE mEnd]

isNaN(num) == num.kind = "NaN"

\* num < k, for a parsed number and an integer 0 <= k < 10000
NumLtInt(num, k) ==
    IF num.kind = "Infinity" THEN num.s = -1
    ELSE IF num.n = 0 THEN 0 < k
    ELSE IF num.s = -1 THEN TRUE
    ELSE IF num.e >= 0
    THEN num.e <= 4 /\ num.n * (10 ^ num.e) < k
    ELSE (-num.e) > 5 \/ num.n < k * (10 ^ (-num.e))

\* num > k, likewise
NumGtInt(num, k) ==
    IF num.kind = "Infinity" THEN num.s = 1
    ELSE IF num.n = 0 THEN FALSE
    ELSE IF num.s = -1 THEN FALSE
    ELSE IF num.e >= 0
    THEN num.e > 4 \/ num.n * (10 ^ num.e) > k
    ELSE (-num.e) <= 5 /\ num.n > k * (10 ^ (-num.e))

\* the binary64 a parsed number within [0, 10000) is
NumToDouble(num) ==
    IF num.e >= 0 THEN Num(num.n * (10 ^ num.e))
    ELSE Lit(num.n, 10 ^ (-num.e))

\* Variant of parseNumber that takes the default for a number outside the
\* bounds.
parseNumberDefaultOutside(value, defaultValue, min, max) ==
    IF value = <<>> \/ value[1] = <<>> THEN defaultValue
    ELSE LET num == parseFloat(value[1])
         IN  IF isNaN(num) THEN defaultValue
             ELSE IF NumGtInt(num, max) THEN defaultValue
             ELSE IF NumLtInt(num, min) THEN defaultValue
             ELSE NumToDouble(num)

\* parseNumber(value, defaultValue, min, max); value is <<>> for null and
\* <<str>> for a string
parseNumber(value, defaultValue, min, max) ==
    IF value = <<>> \/ value[1] = <<>> THEN defaultValue
    ELSE LET num == parseFloat(value[1])
         IN  IF isNaN(num) THEN defaultValue
             ELSE IF NumGtInt(num, max) THEN Num(max)
             ELSE IF NumLtInt(num, min) THEN Num(min)
             ELSE NumToDouble(num)

\* url.searchParams.get(name)
searchParamsGet(query, name) ==
    IF name \in DOMAIN query THEN <<query[name]>> ELSE <<>>

DEFAULT_DIMENSIONS == [valence |-> Half, arousal |-> Half, focus |-> Half]

parseGenerateParams(query) ==
    [width      |-> parseNumber(searchParamsGet(query, "width"), Num(1920), 100, 8192),
     height     |-> parseNumber(searchParamsGet(query, "height"), Num(1080), 100, 8192),
     dimensions |->
        [valence |-> parseNumber(searchParamsGet(query, "valence"), DEFAULT_DIMENSIONS.valence, 0, 1),
         arousal |-> parseNumber(searchParamsGet(query, "arousal"), DEFAULT_DIMENSIONS.arousal, 0, 1),
         focus   |-> parseNumber(searchParamsGet(query, "focus"), DEFAULT_DIMENSIONS.focus, 0, 1)]]

\* the queries of the requests: one of width and height is any value, the
\* rest is absent or as in the documented example
ApiQueries ==
    {[width |-> v] : v \in QueryValues}
    \cup {[height |-> v] : v \in QueryValues}
    \cup {[width |-> v, height |-> <<"9", "9", "9">>, valence |-> <<"0", ".", "9">>,
           focus |-> <<"9">>, arousal |-> <<"x">>] : v \in QueryValues}
    \cup {[height |-> v, width |-> <<"9", "e", "9">>, valence |-> <<"-", "9">>] : v \in QueryValues}

InitApi ==
    /\ ParkedExceptApi
    /\ apiQuery = <<>>
    /\ apiArgs = <<>>
    /\ apiStatus = 0
    /\ apipc = "listening"

\* a request arrives: parseGenerateParams, then renderWithBrowser is called
ApiRequest ==
    /\ apipc = "listening"
    /\ \E q \in ApiQueries :
          /\ apiQuery' = q
          /\ apiArgs' = <<parseGenerateParams(q)>>
    /\ apipc' = "rendering"
    /\ UNCHANGED apiStatus
    /\ UNCHANGED exceptApiVars

\* renderWithBrowser resolves: the PNG response
RenderResolves ==
    /\ apipc = "rendering"
    /\ apiStatus' = 200
    /\ apipc' = "responded"
    /\ UNCHANGED <<apiQuery, apiArgs>>
    /\ UNCHANGED exceptApiVars

\* renderWithBrowser rejects: the catch block's response
RenderRejects ==
    /\ apipc = "rendering"
    /\ apiStatus' = 500
    /\ apipc' = "responded"
    /\ UNCHANGED <<apiQuery, apiArgs>>
    /\ UNCHANGED exceptApiVars

NextApi ==
    \/ ApiRequest
    \/ RenderResolves
    \/ RenderRejects

SpecApi == InitApi /\ [][NextApi]_vars

\* the whole string is a decimal number
IsNumeric(str) == ~isNaN(parseFloat(str)) /\ parseFloat(str).end = Len(str) + 1

\* the default of width and height
SizeDefault(name) == IF name = "width" THEN Num(1920) ELSE Num(1080)

\* the renderer is called for every request, before any response, with a
\* width and a height in [100, 8192]
SizesWithinBounds ==
    /\ apipc = "listening" => apiArgs = <<>> /\ apiStatus = 0
    /\ apipc = "rendering" => apiStatus = 0
    /\ apipc # "listening" =>
          /\ Len(apiArgs) = 1
          /\ \A name \in {"width", "height"} :
                /\ FLe(Num(100), apiArgs[1][name])
                /\ FLe(apiArgs[1][name], Num(8192))

MaxShapesExtra == 2

MAX_SHADER_LINES == 40
MAX_SHADER_CIRCLES == 10

\* array sizes of uLines and uCircles in the fragment shader
MAX_LINES == 40
MAX_CIRCLES == 10

\* the i-th line and circle of a list: distinct shapes
LineAt(i) == [start |-> [x |-> i, y |-> 0], end |-> [x |-> 0, y |-> i]]

CircleAt(i) == [center |-> [x |-> i, y |-> i], radius |-> i]

\* packLinesForShader(lines): a vec4 per line up to count, then zero padding
packLinesForShader(lines) ==
    LET count == Min({Len(lines), MAX_SHADER_LINES})
    IN  [i \in 1 .. MAX_SHADER_LINES |->
            IF i <= count
            THEN <<lines[i].start.x, lines[i].start.y, lines[i].end.x, lines[i].end.y>>
            ELSE <<0, 0, 0, 0>>]

\* packCirclesForShader(circles): a vec3 per circle up to count, then padding
packCirclesForShader(circles) ==
    LET count == Min({Len(circles), MAX_SHADER_CIRCLES})
    IN  [i \in 1 .. MAX_SHADER_CIRCLES |->
            IF i <= count
            THEN <<circles[i].center.x, circles[i].center.y, circles[i].radius>>
            ELSE <<0, 0, 0>>]

\* the shape uniforms render sets
shapeUniforms(lines, circles) ==
    [uLines       |-> packLinesForShader(lines),
     uLineCount   |-> Min({Len(lines), MAX_SHADER_LINES}),
     uCircles     |-> packCirclesForShader(circles),
     uCircleCount |-> Min({Len(circles), MAX_SHADER_CIRCLES})]

\* computeLeadingSDF: the array elements its loops reach before they break
computeLeadingSDF(u) ==
    [lines   |-> [i \in 1 .. Min({u.uLineCount, MAX_LINES}) |-> u.uLines[i]],
     circles |-> [i \in 1 .. Min({u.uCircleCount, MAX_CIRCLES}) |-> u.uCircles[i]]]

InitShader ==
    /\ ParkedExceptShader
    /\ \E n \in 0 .. (MAX_SHADER_LINES + MaxShapesExtra) :
          shLines = [i \in 1 .. n |-> LineAt(i)]
    /\ \E n \in 0 .. (MAX_SHADER_CIRCLES + MaxShapesExtra) :
          shCircles = [i \in 1 .. n |-> CircleAt(i)]
    /\ shUniforms = <<>>
    /\ shUsed = <<>>
    /\ shpc = "ready"

\* render(data, config, noiseSeed, lines, circles): the line and circle
\* uniforms
RenderSetsShapeUniforms ==
    /\ shpc = "ready"
    /\ shUniforms' = <<shapeUniforms(shLines, shCircles)>>
    /\ shpc' = "uniforms"
    /\ UNCHANGED <<shLines, shCircles, shUsed>>
    /\ UNCHANGED exceptShaderVars

\* the quad is drawn: the fragment shader computes the leading distance
FragmentLeadingSDF ==
    /\ shpc = "uniforms"
    /\ shUsed' = <<computeLeadingSDF(shUniforms[1])>>
    /\ shpc' = "drawn"
    /\ UNCHANGED <<shLines, shCircles, shUniforms>>
    /\ UNCHANGED exceptShaderVars

NextShader ==
    \/ RenderSetsShapeUniforms
    \/ FragmentLeadingSDF

SpecShader == InitShader /\ [][NextShader]_vars

\* C20: for every shape list passed to render, the line and circle counts
\* given to the shader equal the list lengths, and the leading distance is
\* taken over every line and every circle of the list.
C20_EveryShapeInLeadingSDF ==
    /\ shpc \in {"uniforms", "drawn"} =>
          /\ shUniforms[1].uLineCount = Len(shLines)
          /\ shUniforms[1].uCircleCount = Len(shCircles)
    /\ shpc = "drawn" =>
          /\ \A i \in 1 .. Len(shLines) :
                \E j \in 1 .. Len(shUsed[1].lines) :
                   shUsed[1].lines[j] = <<shLines[i].start.x, shLines[i].start.y,
                                          shLines[i].end.x, shLines[i].end.y>>
          /\ \A i \in 1 .. Len(shCircles) :
                \E j \in 1 .. Len(shUsed[1].circles) :
                   shUsed[1].circles[j] = <<shCircles[i].center.x, shCircles[i].center.y,
                                            shCircles[i].radius>>

\* ------------------------------------------------------------------------
\* Fragment shader: glass colour, leading colour and their blend
\* ------------------------------------------------------------------------
\* Bounds: the leading distance of the pixel and the leading thickness, in
\* half pixels; the regions of the palette.
MaxSdf == 12
MaxThickness == 6
MaxPalette == 2

\* float aa = 1.5, in half pixels
AA == 3

\* smoothstep(edge0, edge1, x) as a fraction with denominator (edge1 - edge0)^3:
\* t = clamp((x - edge0) / (edge1 - edge0), 0, 1); t * t * (3 - 2 t)
smoothstep(edge0, edge1, x) ==
    LET d == edge1 - edge0
        k == IF x <= edge0 THEN 0 ELSE IF x >= edge1 THEN d ELSE x - edge0
    IN  [num |-> k * k * (3 * d - 2 * k), den |-> d * d * d]

\* computeGlassColor: the palette entry of the texel's region id rid, from which the glass colour
\* is derived
computeGlassColor(palette, rid) ==
    [lookup |-> rid, baseColor |-> colorsTexel(palette, rid)]

\* main: finalColor = mix(glassColor, leadingColor, leadingBlend) with
\* leadingBlend = 1 - smoothstep(uLeadingThickness - aa, uLeadingThickness + aa, sdf);
\* glass is the glass colour's palette lookup
fragmentColor(palette, rid, sdf, thickness) ==
    [glass        |-> <<computeGlassColor(palette, rid)>>,
     leadingBlend |-> LET s == smoothstep(thickness - AA, thickness + AA, sdf)
                      IN  [num |-> s.den - s.num, den |-> s.den]]

InitFrag ==
    /\ ParkedExceptFrag
    /\ \E n \in 0 .. MaxPalette : fgPalette = [i \in 1 .. n |-> i]
    /\ fgRegionId \in (0 .. (MaxPalette - 1)) \cup {BOUNDARY_ID}
    /\ fgRegionId < Len(fgPalette) \/ fgRegionId = BOUNDARY_ID
    /\ fgSdf \in 0 .. MaxSdf
    /\ fgThickness \in 2 .. MaxThickness
    /\ fgOut = <<>>
    /\ fgpc = "ready"

\* the fragment shader runs on the pixel
FragmentMain ==
    /\ fgpc = "ready"
    /\ fgOut' = <<fragmentColor(fgPalette, fgRegionId, fgSdf, fgThickness)>>
    /\ fgpc' = "done"
    /\ UNCHANGED <<fgPalette, fgRegionId, fgSdf, fgThickness>>
    /\ UNCHANGED exceptFragVars

NextFrag == FragmentMain

SpecFrag == InitFrag /\ [][NextFrag]_vars

\* C21: a pixel whose region id is 255 takes the leading colour as its colour
\* before grain, with no palette lookup, whatever its leading distance.
C21_BoundaryTakesLeadingColour ==
    (fgpc = "done" /\ fgRegionId = BOUNDARY_ID) =>
        /\ fgOut[1].glass = <<>>
        /\ fgOut[1].leadingBlend.num = fgOut[1].leadingBlend.den

\* ------------------------------------------------------------------------
\* The span stack of fillRegion
\* ------------------------------------------------------------------------
\* the component fillRegion is filling: the one of the seed pixel (x, y) of
\* the scan
FilledComponent ==
    LET comp == ComponentOf(boundaries, width, height)
    IN  {p \in InteriorNow : comp[p] = comp[scanY * width + scanX]}

\* the maximal horizontal runs of a set of pixels, by their leftmost pixel
RunStarts(S, w) == {p \in S : p % w = 0 \/ (p - 1) \notin S}

\* C22 (as stated): at every step of fillRegion the span stack holds no more
\* entries than the component being filled has maximal horizontal runs.
C22_StackWithinRuns ==
    pc = "fill" => Len(stack) <= Cardinality(RunStarts(FilledComponent, width))

\* C22 (amended): at every step of fillRegion the span stack holds no more
\* entries than twice the number of maximal horizontal runs of the component
\* being filled.
C22_StackWithinTwiceRuns ==
    pc = "fill" => Len(stack) <= 2 * Cardinality(RunStarts(FilledComponent, width))

\* a fill whose stack is longer than the number of runs of its component
C22_Witness ==
    /\ pc = "fill"
    /\ Len(stack) > Cardinality(RunStarts(FilledComponent, width))
    /\ \E i, j \in 1 .. Len(stack) : i # j /\ stack[i] = stack[j]

\* ------------------------------------------------------------------------
\* Discovery order of the regions
\* ------------------------------------------------------------------------
\* the visited non-boundary pixels that hold region id k
RegionPixels(k) == {p \in InteriorNow : visited[p] # 0 /\ ids[p] = k}

\* the regions discovered so far: the one being filled counts
Discovered == regionId + (IF pc = "fill" THEN 1 ELSE 0)

\* C23: detectRegions assigns ids in row-major discovery order. At every step
\* the ids written are exactly 0 .. n-1 for the n regions discovered so far,
\* the palette has exactly one entry per discovered region (entry k is pushed
\* when region k is discovered, before any pixel of region k is written and
\* before region k+1), and in the result the first pixel of region i in
\* row-major order comes before the first pixel of region i+1 (hence, the ids
\* being gapless, before the first pixel of every region j > i).
C23_IdsInDiscoveryOrder ==
    pc # "init" =>
        /\ Len(colors) = Discovered
        /\ \A k \in 1 .. Len(colors) : colors[k] = regionColor(k - 1)
        /\ AssignedIds \subseteq 0 .. (Discovered - 1)
        /\ 0 .. (regionId - 1) \subseteq AssignedIds
        /\ pc = "done" =>
               \A i \in AssignedIds : (i + 1) \in AssignedIds =>
                   Min(RegionPixels(i)) < Min(RegionPixels(i + 1))

\* a finished detection with at least three regions in which region 0 also
\* owns pixels that come after the first pixel of region 1
C23_Witness ==
    /\ pc = "done"
    /\ Cardinality(AssignedIds) >= 3
    /\ \E p \in RegionPixels(0) : p > Min(RegionPixels(1))

\* ------------------------------------------------------------------------
\* Termination of fillRegion
\* ------------------------------------------------------------------------
\* fillRegion as a function of its arguments. Before the call nothing is
\* allocated.
InitFill ==
    /\ width = 0
    /\ height = 0
    /\ boundaries = <<>>
    /\ ids = <<>>
    /\ visited = <<>>
    /\ colors = <<>>
    /\ regionId = 0
    /\ maxRegionsReached = FALSE
    /\ scanX = 0
    /\ scanY = 0
    /\ stack = <<>>
    /\ pc = "call"
    /\ ParkedExceptRegions

\* The call fillRegion(ids, visited, width, height, startX, startY, regionId)
\* for any canvas and boundary map of the enumerated inputs and any unvisited
\* seed pixel, up to "Find initial span" and the first push (lines 113-117).
FillCall ==
    /\ pc = "call"
    /\ \E inp \in SmallInputs \cup WideInputs :
        \E seed \in Interior(inp.b, inp.w, inp.h) :
            /\ width' = inp.w
            /\ height' = inp.h
            /\ boundaries' = inp.b
            /\ ids' = markBoundaries(inp.b, inp.w, inp.h).ids
            /\ visited' = markBoundaries(inp.b, inp.w, inp.h).visited
            /\ colors' = <<regionColor(0)>>
            /\ scanX' = seed % inp.w
            /\ scanY' = seed \div inp.w
            /\ stack' = fillRegionStart(markBoundaries(inp.b, inp.w, inp.h).visited,
                                        inp.w, seed % inp.w, seed \div inp.w)
    /\ pc' = "fill"
    /\ UNCHANGED <<regionId, maxRegionsReached>>
    /\ UNCHANGED exceptRegionsVars

NextFill ==
    \/ FillCall
    \/ FillStep

\* fillRegion is one synchronous call: while the stack holds a span the loop
\* takes its next iteration.
SpecFill == InitFill /\ [][NextFill]_vars /\ WF_vars(FillStep)

\* C25: fillRegion terminates for every grid, boundary map and seed pixel:
\* from every step of the fill at which the span stack holds a span, the
\* stack eventually becomes empty (the while loop of fillRegion ends).
C25_FillTerminates ==
    (pc = "fill" /\ Len(stack) > 0) ~> (pc = "fill" /\ stack = <<>>)

\* a fill that ended with an empty stack on a component of at least seven
\* runs whose spans were pushed more than once (the comb)
C25_Witness ==
    /\ pc = "fill"
    /\ stack = <<>>
    /\ Cardinality(RunStarts(FilledComponent, width)) >= CombTeeth + 2
    /\ \A p \in FilledComponent : visited[p] # 0 /\ ids[p] = regionId

\* ------------------------------------------------------------------------
\* Browser pool (BrowserPool, renderWithBrowser)
\* ------------------------------------------------------------------------
\* Concurrent calls (API requests and initBrowserPool) of one server process
MaxRequests == 3

MAX_POOL_SIZE == 2

Requests == 1 .. MaxRequests

\* Variant of findAvailable that ignores the inUse flag.
findAny(pgs) == IF Len(pgs) > 0 THEN 1 ELSE 0

\* this.pages.find(p => !p.inUse): index of the first free page, 0 for undefined
findAvailable(pgs) ==
    IF \E i \in 1 .. Len(pgs) : ~pgs[i]
    THEN Min({i \in 1 .. Len(pgs) : ~pgs[i]})
    ELSE 0

\* the calls in a sequence, as a set
Range(q) == {q[i] : i \in 1 .. Len(q)}

\* JavaScript runs one job at a time: a timer or I/O callback (and a new
\* request) starts only when the microtask queue is empty; the continuations
\* of settled awaits run first, in queue order.
InitPool ==
    /\ plBrowser = FALSE
    /\ plPages = <<>>
    /\ plInitializing = "null"
    /\ plWaiters = <<>>
    /\ plTasks = <<>>
    /\ rqPc = [r \in Requests |-> "idle"]
    /\ rqKind = [r \in Requests |-> "none"]
    /\ rqPage = [r \in Requests |-> 0]
    /\ rqSeen = [r \in Requests |-> "none"]
    /\ ParkedExceptPool

\* A call of renderWithBrowser (line 139: acquire, line 80: init) or of
\* initBrowserPool (line 164: init) runs the synchronous part of init():
\*   line 27: browser set, return (the caller's await resumes as a microtask);
\*   lines 28-30: initializing set, await it (a rejected promise rethrows and
\*     the call fails without touching the pool);
\*   lines 33-34 and 39: initializing = doInit(), which calls puppeteer.launch.
InitEnter(r) ==
    /\ rqPc[r] = "idle"
    /\ plTasks = <<>>
    /\ \E kind \in {"render", "init"} : rqKind' = [rqKind EXCEPT ![r] = kind]
    /\ IF plBrowser
       THEN /\ rqPc' = [rqPc EXCEPT ![r] = "afterInit"]
            /\ rqSeen' = [rqSeen EXCEPT ![r] = "browser"]
            /\ plTasks' = Append(plTasks, r)
            /\ UNCHANGED <<plInitializing, plWaiters>>
       ELSE IF plInitializing = "pending"
       THEN /\ rqPc' = [rqPc EXCEPT ![r] = "awaitInit"]
            /\ rqSeen' = [rqSeen EXCEPT ![r] = "pending"]
            /\ plWaiters' = Append(plWaiters, r)
            /\ UNCHANGED <<plInitializing, plTasks>>
       ELSE IF plInitializing = "rejected"
       THEN /\ rqPc' = [rqPc EXCEPT ![r] = "failed"]
            /\ rqSeen' = [rqSeen EXCEPT ![r] = "rejected"]
            /\ UNCHANGED <<plInitializing, plWaiters, plTasks>>
       ELSE /\ rqPc' = [rqPc EXCEPT ![r] = "launching"]
            /\ rqSeen' = [rqSeen EXCEPT ![r] = "started"]
            /\ plInitializing' = "pending"
            /\ UNCHANGED <<plWaiters, plTasks>>
    /\ UNCHANGED <<plBrowser, plPages, rqPage>>
    /\ UNCHANGED exceptPoolVars

\* line 39: puppeteer.launch resolves, this.browser is set; line 55 and
\* lines 59-72: createPage starts and awaits the page (newPage, setViewport,
\* goto, waitForFunction: four awaits that touch nothing of the pool)
LaunchResolves(r) ==
    /\ rqPc[r] = "launching"
    /\ plTasks = <<>>
    /\ plBrowser' = TRUE
    /\ rqPc' = [rqPc EXCEPT ![r] = "prewarm"]
    /\ UNCHANGED <<plPages, plInitializing, plWaiters, plTasks, rqKind, rqPage, rqSeen>>
    /\ UNCHANGED exceptPoolVars

\* the doInit promise rejects: the init() that owns it throws at line 34
\* (line 35 is not reached) and every init() awaiting it throws at line 29
InitRejects(r) ==
    /\ plInitializing' = "rejected"
    /\ rqPc' = [q \in Requests |->
                  IF q = r \/ q \in Range(plWaiters) THEN "failed" ELSE rqPc[q]]
    /\ plWaiters' = <<>>
    /\ UNCHANGED <<plBrowser, plPages, plTasks, rqKind, rqPage, rqSeen>>
    /\ UNCHANGED exceptPoolVars

\* line 39: puppeteer.launch throws
LaunchRejects(r) ==
    /\ rqPc[r] = "launching"
    /\ plTasks = <<>>
    /\ InitRejects(r)

\* line 55: the pre-warm createPage throws (the browser stays set)
PrewarmRejects(r) ==
    /\ rqPc[r] = "prewarm"
    /\ plTasks = <<>>
    /\ InitRejects(r)

\* lines 74-76 inside doInit: the pre-warmed page is pushed with inUse false
\* and doInit resolves. The continuations run as microtasks in the order the
\* awaits were registered: the owner's init() first (line 35:
\* initializing = null), then the init() calls awaiting at line 29, then the
\* callers of those init() calls in the same order.
PrewarmResolves(r) ==
    /\ rqPc[r] = "prewarm"
    /\ plTasks = <<>>
    /\ plPages' = Append(plPages, FALSE)
    /\ plInitializing' = "null"
    /\ plTasks' = <<r>> \o plWaiters
    /\ plWaiters' = <<>>
    /\ rqPc' = [q \in Requests |->
                  IF q = r \/ q \in Range(plWaiters) THEN "afterInit" ELSE rqPc[q]]
    /\ UNCHANGED <<plBrowser, rqKind, rqPage, rqSeen>>
    /\ UNCHANGED exceptPoolVars

\* The continuation after "await this.init()". initBrowserPool returns.
\* acquire, lines 83-104: take the first free page, or start createPage when
\* the pool is under the limit (lines 86-87), or start the 100 ms interval
\* (lines 91-100).
AfterInit(r) ==
    /\ plTasks # <<>>
    /\ Head(plTasks) = r
    /\ rqPc[r] = "afterInit"
    /\ plTasks' = Tail(plTasks)
    /\ IF rqKind[r] = "init"
       THEN /\ rqPc' = [rqPc EXCEPT ![r] = "done"]
            /\ UNCHANGED <<plPages, rqPage>>
       ELSE IF findAvailable(plPages) # 0
       THEN /\ plPages' = [plPages EXCEPT ![findAvailable(plPages)] = TRUE]
            /\ rqPage' = [rqPage EXCEPT ![r] = findAvailable(plPages)]
            /\ rqPc' = [rqPc EXCEPT ![r] = "evaluate"]
       ELSE IF Len(plPages) < MAX_POOL_SIZE
       THEN /\ rqPc' = [rqPc EXCEPT ![r] = "creating"]
            /\ UNCHANGED <<plPages, rqPage>>
       ELSE /\ rqPc' = [rqPc EXCEPT ![r] = "waiting"]
            /\ UNCHANGED <<plPages, rqPage>>
    /\ UNCHANGED <<plBrowser, plInitializing, plWaiters, rqKind, rqSeen>>
    /\ UNCHANGED exceptPoolVars

\* lines 74-76 inside acquire's createPage: the new page is pushed with
\* inUse false; acquire resumes at line 87 as a microtask
CreateResolves(r) ==
    /\ rqPc[r] = "creating"
    /\ plTasks = <<>>
    /\ plPages' = Append(plPages, FALSE)
    /\ rqPage' = [rqPage EXCEPT ![r] = Len(plPages) + 1]
    /\ rqPc' = [rqPc EXCEPT ![r] = "created"]
    /\ plTasks' = Append(plTasks, r)
    /\ UNCHANGED <<plBrowser, plInitializing, plWaiters, rqKind, rqSeen>>
    /\ UNCHANGED exceptPoolVars

\* lines 61-72 inside acquire's createPage throw: acquire rejects and
\* renderWithBrowser rejects at line 139, before its try
CreateRejects(r) ==
    /\ rqPc[r] = "creating"
    /\ plTasks = <<>>
    /\ rqPc' = [rqPc EXCEPT ![r] = "failed"]
    /\ UNCHANGED <<plBrowser, plPages, plInitializing, plWaiters, plTasks,
                   rqKind, rqPage, rqSeen>>
    /\ UNCHANGED exceptPoolVars

\* lines 87 and 104-105: pooledPage is the page createPage returned
AfterCreate(r) ==
    /\ plTasks # <<>>
    /\ Head(plTasks) = r
    /\ rqPc[r] = "created"
    /\ plTasks' = Tail(plTasks)
    /\ plPages' = [plPages EXCEPT ![rqPage[r]] = TRUE]
    /\ rqPc' = [rqPc EXCEPT ![r] = "evaluate"]
    /\ UNCHANGED <<plBrowser, plInitializing, plWaiters, rqKind, rqPage, rqSeen>>
    /\ UNCHANGED exceptPoolVars

\* lines 93-98: an interval callback that finds a free page resolves the
\* promise (a callback that finds none changes nothing)
WaitTick(r) ==
    /\ rqPc[r] = "waiting"
    /\ plTasks = <<>>
    /\ findAvailable(plPages) # 0
    /\ rqPc' = [rqPc EXCEPT ![r] = "woken"]
    /\ plTasks' = Append(plTasks, r)
    /\ UNCHANGED <<plBrowser, plPages, plInitializing, plWaiters, rqKind, rqPage, rqSeen>>
    /\ UNCHANGED exceptPoolVars

\* lines 101 and 104-105: pooledPage = this.pages.find(p => !p.inUse)!
AfterWait(r) ==
    /\ plTasks # <<>>
    /\ Head(plTasks) = r
    /\ rqPc[r] = "woken"
    /\ plTasks' = Tail(plTasks)
    /\ plPages' = [plPages EXCEPT ![findAvailable(plPages)] = TRUE]
    /\ rqPage' = [rqPage EXCEPT ![r] = findAvailable(plPages)]
    /\ rqPc' = [rqPc EXCEPT ![r] = "evaluate"]
    /\ UNCHANGED <<plBrowser, plInitializing, plWaiters, rqKind, rqSeen>>
    /\ UNCHANGED exceptPoolVars

\* release(page), lines 108-113
release(pgs, page) == [i \in 1 .. Len(pgs) |-> IF i = page THEN FALSE ELSE pgs[i]]

\* lines 143-156: page.evaluate resolves, the buffer is returned, finally
EvaluateResolves(r) ==
    /\ rqPc[r] = "evaluate"
    /\ plTasks = <<>>
    /\ plPages' = release(plPages, rqPage[r])
    /\ rqPc' = [rqPc EXCEPT ![r] = "done"]
    /\ UNCHANGED <<plBrowser, plInitializing, plWaiters, plTasks, rqKind, rqPage, rqSeen>>
    /\ UNCHANGED exceptPoolVars

\* Variant of EvaluateRejects without the finally block.
EvaluateRejectsNoFinally(r) ==
    /\ rqPc[r] = "evaluate"
    /\ plTasks = <<>>
    /\ rqPc' = [rqPc EXCEPT ![r] = "threw"]
    /\ UNCHANGED <<plBrowser, plPages, plInitializing, plWaiters, plTasks,
                   rqKind, rqPage, rqSeen>>
    /\ UNCHANGED exceptPoolVars

\* lines 143-156: page.evaluate throws, finally, the error propagates
EvaluateRejects(r) ==
    /\ rqPc[r] = "evaluate"
    /\ plTasks = <<>>
    /\ plPages' = release(plPages, rqPage[r])
    /\ rqPc' = [rqPc EXCEPT ![r] = "threw"]
    /\ UNCHANGED <<plBrowser, plInitializing, plWaiters, plTasks, rqKind, rqPage, rqSeen>>
    /\ UNCHANGED exceptPoolVars

NextPool ==
    \E r \in Requests :
        \/ InitEnter(r)
        \/ LaunchResolves(r)
        \/ LaunchRejects(r)
        \/ PrewarmResolves(r)
        \/ PrewarmRejects(r)
        \/ AfterInit(r)
        \/ CreateResolves(r)
        \/ CreateRejects(r)
        \/ AfterCreate(r)
        \/ WaitTick(r)
        \/ AfterWait(r)
        \/ EvaluateResolves(r)
        \/ EvaluateRejects(r)

SpecPool == InitPool /\ [][NextPool]_vars

\* the renderWithBrowser calls between acquire's return and release
Holders(i) == {r \in Requests : rqPc[r] = "evaluate" /\ rqPage[r] = i}

\* C24: for any interleaving of concurrent acquire calls the pool never holds
\* more than MAX_POOL_SIZE pages.
C24_PoolWithinLimit == Len(plPages) <= MAX_POOL_SIZE

\* C26: no pooled page is held by two renderWithBrowser calls at once: between
\* acquire returning a page to a call and that call's release, no other
\* acquire returns the same page.
C26_PageHeldByOneCall ==
    \A i \in 1 .. Len(plPages) : Cardinality(Holders(i)) <= 1

\* two calls render at once on different pages, one of them on a page an
\* earlier call held and released
C26_Witness ==
    \E r1, r2, r3 \in Requests :
        /\ r1 # r2
        /\ rqPc[r1] = "evaluate"
        /\ rqPc[r2] = "evaluate"
        /\ rqPc[r3] \in {"done", "threw"}
        /\ rqPage[r3] = rqPage[r1]

\* C27: after BrowserPool.init failed, a later init or acquire call starts a
\* new initialization attempt instead of awaiting the failed one: no call
\* finds the rejected doInit promise in this.initializing and awaits it.
C27_FailedInitRetried ==
    \A r \in Requests : rqSeen[r] # "rejected"

\* C29: every page handed out by acquire is released when its renderWithBrowser
\* call ends, by return or by throw: a page is marked inUse only while a call
\* that acquired it is still in page.evaluate, so once every render has ended
\* no page is marked inUse.
C29_PagesReleased ==
    \A i \in 1 .. Len(plPages) : plPages[i] => Holders(i) # {}

\* every call has ended, one after page.evaluate resolved and one after it
\* threw, and the pool holds pages
C29_Witness ==
    /\ \A r \in Requests : rqPc[r] \in {"done", "threw", "failed"}
    /\ \E r \in Requests : rqPc[r] = "done" /\ rqPage[r] # 0
    /\ \E r \in Requests : rqPc[r] = "threw" /\ rqPage[r] # 0
    /\ Len(plPages) > 0

\* ------------------------------------------------------------------------
\* generateArt during an export
\* ------------------------------------------------------------------------
\* generateArt calls that may run while one export is awaiting
MaxGenerations == 1

\* The artwork generateArt leaves in the application state when it is called
\* for the current target size (canvas click, sketch.ts line 447, or a new
\* generation at the same resolution): other shapes and another noise seed.
Regenerated(a) ==
    {b \in Artworks : /\ b.targetWidth = a.targetWidth
                      /\ b.targetHeight = a.targetHeight
                      /\ b.noiseSeed # a.noiseSeed
                      /\ b.shapes.ink = [i \in DOMAIN a.shapes.ink |-> ~a.shapes.ink[i]]}

\* an export of an artwork that needs tiles (the direct branch has no await)
InitExportRace ==
    /\ InitExport
    /\ path = "export"
    /\ appState.noiseSeed = 0
    /\ needsTiledRendering(appState.targetWidth, appState.targetHeight, maxTileSize)

\* generateArt, lines 165-188, run by the event loop while the export is at
\* one of its awaits (lines 256 and 289): setConfig, setDimensions, setShapes
\* and setNoiseSeed store new values in the application state. The arrays
\* the export destructured at line 208 are not written.
GenerateArtDuringExport ==
    /\ epc \in {"tileAwait", "compositeAwait"}
    /\ Len(genAt) < MaxGenerations
    /\ appState' \in Regenerated(appState)
    /\ genAt' = Append(genAt, tileIdx)
    /\ UNCHANGED <<maxTileSize, path, capt, epc, tiles, tileIdx,
                   fullRegionData, renderedTiles, detectLog, output>>
    /\ UNCHANGED <<regionVars, rendererVars, resolveVars, genVars, uiVars,
                   apiVars, shaderVars, fragVars, poolVars>>

NextExportRace ==
    \/ ExportFullResolution
    \/ TileResume
    \/ TileRender
    \/ CompositeAndDownload
    \/ GenerateArtDuringExport

SpecExportRace == InitExportRace /\ [][NextExportRace]_vars

\* C28: every tile of one exportFullResolution run is rendered with the
\* values read from the application state when the export started (the
\* locals of line 208, capt) and with the region data computed from them
\* before the first tile, also when generateArt has replaced the application
\* state during an await of the export.
C28_TilesUseStateAtStart ==
    (epc \in {"tileAwait", "tileRender", "compositeAwait", "done"} /\ Len(tiles) > 0) =>
        \A full \in {computeRegionData(capt.shapes, capt.targetWidth, capt.targetHeight)} :
            \A k \in 1 .. Len(renderedTiles) :
                renderedTiles[k] = renderTile(full, tiles[k], capt)

\* a finished tiled export during which generateArt ran before the last tile
\* was rendered, and the state it left renders that tile differently
C28_Witness ==
    /\ epc = "done"
    /\ \E i \in 1 .. Len(genAt) : genAt[i] < Len(tiles)
    /\ appState # capt
    /\ renderedTiles[Len(tiles)] # renderTile(fullRegionData, tiles[Len(tiles)], appState)

\* C30: every line generateEdgeToEdgeLine returns has distinct start and end
\* points, for every canvas size and every outcome of the random source, so
\* that dot(ba, ba) in sdSegment is never zero.
C30_LineHasLength ==
    gpc = "line" => gnLine[1].start # gnLine[1].end

====
